---------------------------- MODULE Spec2Model ----------------------------
(***************************************************************************)
(* A state-machine model of src/src/WebSocket.js (the revision at lines    *)
(* 631-1415): the upgrade handler, the client registry, the frame codec,   *)
(* the per-connection reader and frame handler, and the transport          *)
(* callbacks.                                                              *)
(*                                                                         *)
(* Bytes are naturals 0..255, buffers and strings are sequences of them.   *)
(* A JavaScript exception that leaves a callback is recorded in uncaught.  *)
(***************************************************************************)
EXTENDS Integers, Sequences, FiniteSets, TLC

(***************************************************************************)
(* Bounds of the model.                                                    *)
(***************************************************************************)
NSockets == 2
MaxFrames == 3

Sockets == 1..NSockets

(***************************************************************************)
(* Byte and buffer helpers (node Buffer semantics).                        *)
(***************************************************************************)
\* buf[i] with a 0-based index; a read past the end is undefined, which the
\* bitwise operators of the source coerce to 0.
U8(buf, i) == IF i < Len(buf) THEN buf[i + 1] ELSE 0

\* buf.slice(from, to): clamps to the buffer.
Slice(buf, from, to) ==
    LET t == IF to > Len(buf) THEN Len(buf) ELSE to
    IN  IF from >= t THEN <<>> ELSE SubSeq(buf, from + 1, t)

RECURSIVE Xor(_, _)
\* a ^ b on bytes.
Xor(a, b) ==
    IF a = 0 THEN b
    ELSE IF b = 0 THEN a
    ELSE (((a % 2) + (b % 2)) % 2) + 2 * Xor(a \div 2, b \div 2)

\* The largest length the model's integers hold; a length field whose first
\* byte is above 127 is reported as this value (no buffer is that long).
HugeLength == 2147483647

\* buf.readUInt32BE(i), for a buffer with at least i + 4 bytes.
ReadUInt32BE(buf, i) ==
    IF U8(buf, i) > 127 THEN HugeLength
    ELSE ((U8(buf, i) * 256 + U8(buf, i + 1)) * 256 + U8(buf, i + 2)) * 256
         + U8(buf, i + 3)

\* buf.readUInt16BE(i), for a buffer with at least i + 2 bytes.
ReadUInt16BE(buf, i) == U8(buf, i) * 256 + U8(buf, i + 1)

(***************************************************************************)
(* Frame codec.                                                            *)
(***************************************************************************)
Null == [kind |-> "null"]
Thrown == [kind |-> "throw"]

\* The unmasking loop of #decode.
Unmask(data, maskingKey) ==
    [i \in 1..Len(data) |-> Xor(data[i], maskingKey[((i - 1) % 4) + 1])]

\* The tail of #decode once the length field is read: the payload is
\* complete (unmask it, next is what follows) or the frame is waiting.
DecodeBody(payload, FIN, opcode, payloadLength, index) ==
    IF Len(payload) - index - 4 >= payloadLength
    THEN [kind |-> "frame", FIN |-> FIN, opcode |-> opcode,
          payloadLength |-> payloadLength,
          payloadData |->
              Unmask(Slice(payload, index + 4, index + 4 + payloadLength),
                     Slice(payload, index, index + 4)),
          next |-> Slice(payload, index + 4 + payloadLength, Len(payload)),
          waiting |-> FALSE]
    ELSE [kind |-> "frame", FIN |-> FIN, opcode |-> opcode,
          payloadLength |-> payloadLength,
          payloadData |-> <<>>,
          next |-> payload,
          waiting |-> TRUE]

\* #decode(payload): Null for an unmasked frame or a 64-bit length with
\* non-zero high word, Thrown where readUInt16BE / readUInt32BE read past
\* the end of the buffer (RangeError), else the frame record.
Decode(payload) ==
    LET FIN == U8(payload, 0) >= 128
        opcode == U8(payload, 0) % 16
        MASK == U8(payload, 1) >= 128
        len7 == U8(payload, 1) % 128
    IN  IF ~MASK THEN Null
        ELSE IF len7 = 126
        THEN IF Len(payload) < 4 THEN Thrown
             ELSE DecodeBody(payload, FIN, opcode, ReadUInt16BE(payload, 2), 4)
        ELSE IF len7 = 127
        THEN IF Len(payload) < 6 THEN Thrown
             ELSE IF \E i \in 2..5 : U8(payload, i) # 0 THEN Null
             ELSE IF Len(payload) < 10 THEN Thrown
             ELSE DecodeBody(payload, FIN, opcode, ReadUInt32BE(payload, 6), 10)
        ELSE DecodeBody(payload, FIN, opcode, len7, 2)

\* n as `width` big-endian bytes.
RECURSIVE BigEndian(_, _)
BigEndian(n, width) ==
    IF width = 0 THEN <<>>
    ELSE Append(BigEndian(n \div 256, width - 1), n % 256)

\* #encode with the 7-bit form used up to 126 bytes.
EncodeShortUpTo126(message, opcode) ==
    LET size == Len(message)
        b0 == 128 + (opcode % 16)
    IN  IF size <= 126 THEN <<b0, size>> \o message
        ELSE IF size <= 65535 THEN <<b0, 126>> \o BigEndian(size, 2) \o message
        ELSE <<b0, 127>> \o BigEndian(0, 4) \o BigEndian(size, 4) \o message

\* #encode(message, opcode): a final, unmasked server frame.
Encode(message, opcode) ==
    LET size == Len(message)
        b0 == 128 + (opcode % 16)
    IN  IF size <= 125 THEN <<b0, size>> \o message
        ELSE IF size <= 65535 THEN <<b0, 126>> \o BigEndian(size, 2) \o message
        ELSE <<b0, 127>> \o BigEndian(0, 4) \o BigEndian(size, 4) \o message


(***************************************************************************)
(* Strings: sequences of character codes.                                  *)
(***************************************************************************)
Space == 32

RECURSIVE TrimStart(_)
TrimStart(str) ==
    IF str # <<>> /\ Head(str) = Space THEN TrimStart(Tail(str)) ELSE str

RECURSIVE TrimEnd(_)
TrimEnd(str) ==
    IF str # <<>> /\ str[Len(str)] = Space
    THEN TrimEnd(SubSeq(str, 1, Len(str) - 1)) ELSE str

\* String.prototype.trim
Trim(str) == TrimEnd(TrimStart(str))

\* String.prototype.includes
Includes(str, part) ==
    \E i \in 0..(Len(str) - Len(part)) : SubSeq(str, i + 1, i + Len(part)) = part

\* A header that may be missing from req.headers.
Missing == [has |-> FALSE, val |-> <<>>]
Header(str) == [has |-> TRUE, val |-> str]

\* The character codes used for the strings of the model.
Star == 42
Scheme == 104
websocket == <<119, 115>>

\* Origin and Host values.
HostH == <<49>>
OriginH == <<Scheme, 49>>
OriginE == <<Scheme, 50>>
OriginBare == <<50>>

\* new URL(req.url, base) throws unless base is an absolute URL.
IsUrlBase(origin) == origin # <<>> /\ Head(origin) = Scheme

(***************************************************************************)
(* Configuration setters (each returns the new value of the field).        *)
(***************************************************************************)
\* A value a setter may be handed: null, a string, a list of strings, a
\* number, or something of another type.
NullArg == [type |-> "null"]
StringArg(str) == [type |-> "string", str |-> str]
ListArg(list) == [type |-> "list", list |-> list]
NumberArg(n) == [type |-> "number", n |-> n]

RECURSIVE TrimmedNonEmpty(_)
\* The reduce of the allowOrigin setter: the trimmed non-empty entries.
TrimmedNonEmpty(list) ==
    IF list = <<>> THEN <<>>
    ELSE IF Trim(Head(list)) # <<>>
         THEN <<Trim(Head(list))>> \o TrimmedNonEmpty(Tail(list))
         ELSE TrimmedNonEmpty(Tail(list))

\* set allowOrigin
SetAllowOrigin(current, arg) ==
    IF arg.type = "null" THEN <<>>
    ELSE IF arg.type = "string" THEN TrimmedNonEmpty(<<arg.str>>)
    ELSE IF arg.type = "list" THEN TrimmedNonEmpty(arg.list)
    ELSE current

Encodings == {"utf8", "ascii", "base64", "hex", "binary", "utf16le", "ucs2"}

\* set encoding
SetEncoding(current, arg) ==
    IF arg.type = "string" /\ arg.str \in Encodings THEN arg.str ELSE current

\* set limitByIP, set maxPayload, set pongTimeout, set sessionExpires
SetNumber(current, arg) ==
    IF arg.type = "number" THEN arg.n ELSE current

\* The number 0.5: n is the integer part of a number, and a number that has
\* a fractional part carries the field fraction.
HalfArg == [type |-> "number", n |-> 0, fraction |-> TRUE]

\* arg > 0, for a number.
Positive(arg) == arg.n > 0 \/ (arg.n = 0 /\ "fraction" \in DOMAIN arg)

\* #pingDelay before the constructor assigns it: no time, no timer.
NoPingDelay == [time |-> 0, timer |-> 0, intervals |-> << >>]

\* set pingDelay: clearInterval of the task the field holds, then
\* setInterval when the number is above 0. cur and the result are
\* [time, timer, intervals]; Node runs a task whose delay is below 1 or
\* above 2^31 - 1 every millisecond.
SetPingDelay(cur, arg) ==
    IF arg.type # "number" THEN cur
    ELSE LET cleared == [h \in (DOMAIN cur.intervals) \ {cur.timer} |->
                            cur.intervals[h]]
             handle == CHOOSE h \in 1..(Cardinality(DOMAIN cleared) + 1) :
                           h \notin DOMAIN cleared
             period == IF arg.n >= 1 /\ arg.n <= 2147483647 THEN arg.n ELSE 1
         IN  IF Positive(arg)
             THEN [time |-> arg.n, timer |-> handle,
                   intervals |-> (handle :> period) @@ cleared]
             ELSE [time |-> arg.n, timer |-> 0, intervals |-> cleared]

(***************************************************************************)
(* State.                                                                  *)
(***************************************************************************)
VARIABLES
    allowOrigin,    \* #allowOrigin: list of strings
    encoding,       \* #encoding
    limitByIP,      \* #limitByIP
    maxPayload,     \* #maxPayload
    pingDelay,      \* #pingDelay.time, its integer part
    pingTimer,      \* #pingDelay.timer: the handle of the periodic task
    intervals,      \* pending setInterval tasks: handle -> period
    pongTimeout,    \* #pongTimeout
    sessionExpires, \* #sessionExpires
    clients,        \* #clients: clientId -> record
    sockets,        \* the transports handed to the upgrade handler
    conn,           \* per upgrade-handler invocation: position and closure
    timers,         \* pending setTimeout callbacks: handle -> callback
    nextTimer,      \* the next timer handle
    nextUuid,       \* how many ids crypto.randomUUID has produced
    emitted,        \* per socket: the events its callbacks emitted, in order
    uncaught,       \* per socket: the exceptions that left its callbacks
    wire,           \* per socket: bytes sent by the peer, not yet read
    sent,           \* per socket: all bytes the peer has sent
    now,            \* the time of the event loop, in ms
    journal,        \* what has been observed of connection 1, with times
    returned,       \* the outcome of the last call of a facade operation
    probe           \* the input and the output of a codec round trip

vars == <<allowOrigin, encoding, limitByIP, maxPayload, pingDelay, pingTimer,
          intervals, pongTimeout,
          sessionExpires, clients,
          sockets, conn, timers, nextTimer, nextUuid, emitted, uncaught, wire,
          sent, now, journal, returned, probe>>

config == <<allowOrigin, encoding, limitByIP, maxPayload, pingDelay, pingTimer,
            intervals, pongTimeout,
            sessionExpires>>

\* What the handshake and the transport callbacks leave alone.
aside == <<now, journal, returned, probe>>

\* #pingDelay and the periodic tasks, as the pingDelay setter sees them.
PingDelay == [time |-> pingDelay, timer |-> pingTimer, intervals |-> intervals]

\* The state a construction or an assignment leaves of them.
PingDelayIs(set) ==
    /\ pingDelay = set.time
    /\ pingTimer = set.timer
    /\ intervals = set.intervals

\* crypto.randomUUID(), the n-th id produced.
Uuid(n) == <<117, 48 + n>>

\* A cookie value no randomUUID call produced.
ForgedId == <<120>>

\* crypto.randomBytes(5).toString('hex'): a token no peer has been sent.
RandomToken == <<114>>

NoTimer == 0

(***************************************************************************)
(* Events.                                                                 *)
(***************************************************************************)
OpenEvent(clientId) ==
    [type |-> "open", clientId |-> clientId, code |-> 0, data |-> <<>>]
CloseEvent(clientId, code) ==
    [type |-> "close", clientId |-> clientId, code |-> code, data |-> <<>>]
ErrorEvent(clientId) ==
    [type |-> "error", clientId |-> clientId, code |-> 0, data |-> <<>>]
\* emit(customEvent, clientId, data)
MessageEvent(topic, clientId, data) ==
    [type |-> topic, clientId |-> clientId, code |-> 0, data |-> data]

Topics == {"message", "/chat"}

IsMessage(e) == e.type \in Topics

\* A Buffer handed to the application.
Bytes(buffer) == [isString |-> FALSE, encoding |-> "", chars |-> buffer]

HexDigit(n) == IF n < 10 THEN 48 + n ELSE 87 + n

RECURSIVE HexString(_)
HexString(buffer) ==
    IF buffer = <<>> THEN <<>>
    ELSE <<HexDigit(Head(buffer) \div 16), HexDigit(Head(buffer) % 16)>>
         \o HexString(Tail(buffer))

\* buffer.toString(enc): a string. The model covers 'hex' and, for the
\* other encodings, buffers of ASCII bytes (a byte above 127 that starts no
\* valid sequence becomes U+FFFD).
BufferToString(buffer, enc) ==
    [isString |-> TRUE, encoding |-> enc,
     chars |-> IF enc = "hex" THEN HexString(buffer)
               ELSE [i \in 1..Len(buffer) |->
                        IF buffer[i] < 128 THEN buffer[i] ELSE 65533]]


(***************************************************************************)
(* Transports (net.Socket as the source uses it).                          *)
(***************************************************************************)
\* What the source writes: an HTTP response or a frame.
HttpResponse(status) == [http |-> status, frame |-> <<>>]
FrameWrite(bytes) == [http |-> 0, frame |-> bytes]

\* socket.write(data): recorded with whether the socket could still take it.
SocketWrite(socks, s, data) ==
    [socks EXCEPT ![s].written =
        Append(@, [data |-> data,
                   live |-> ~socks[s].ended /\ ~socks[s].destroyed])]

\* socket.end(data)
SocketEndWith(socks, s, data) ==
    [SocketWrite(socks, s, data) EXCEPT ![s].ended = TRUE]

\* socket.end()
SocketEnd(socks, s) == [socks EXCEPT ![s].ended = TRUE]

\* socket.destroy(): destroyed is set before the call returns.
SocketDestroy(socks, s) == [socks EXCEPT ![s].destroyed = TRUE]

(***************************************************************************)
(* The registry and close(clientId).                                       *)
(*                                                                         *)
(* Handlers are operators on a record st of the fields they touch:         *)
(* clients, sockets, timers, nextTimer, emitted, next, frames, and threw,  *)
(* which is TRUE once an exception has ended the callback.                 *)
(***************************************************************************)
Remove(registry, clientId) ==
    [id \in (DOMAIN registry) \ {clientId} |-> registry[id]]

\* emit with the event put before the events emitted so far.
EmitFirst(st, event) == [st EXCEPT !.emitted = <<event>> \o @]

Emit(st, event) == [st EXCEPT !.emitted = Append(@, event)]

Throw(st) == [st EXCEPT !.threw = TRUE]

\* close(clientId): st.result is "true", "false" or "throw" (ReferenceError).
\* close(clientId) without its delete of the record.
CloseKeepsRecord(st, clientId) ==
    IF clientId \in DOMAIN st.clients
    THEN LET s == st.clients[clientId].socket
         IN  [st EXCEPT !.sockets = SocketDestroy(SocketEnd(st.sockets, s), s),
                        !.result = "true"]
    ELSE [Throw(st) EXCEPT !.result = "throw"]

Close(st, clientId) ==
    IF clientId \in DOMAIN st.clients
    THEN LET s == st.clients[clientId].socket
             socks == IF ~st.sockets[s].destroyed
                      THEN SocketDestroy(SocketEnd(st.sockets, s), s)
                      ELSE st.sockets
         IN  IF socks[s].destroyed
             THEN [st EXCEPT !.sockets = socks,
                             !.clients = Remove(st.clients, clientId),
                             !.result = "true"]
             ELSE [st EXCEPT !.sockets = socks, !.result = "false"]
    ELSE [Throw(st) EXCEPT !.result = "throw"]

\* this.emit('close', clientId, {code}); this.close(clientId);
EmitCloseAndClose(st, clientId, code) ==
    Close(Emit(st, CloseEvent(clientId, code)), clientId)

\* A timer callback: what it closes over, and when it is due.
Callback(kind, clientId, s, payload) ==
    [kind |-> kind, clientId |-> clientId, socket |-> s, payload |-> payload,
     due |-> 0]

\* setTimeout with the callback due half a second late.
SetTimeoutLate(st, callback, delay) ==
    [st EXCEPT !.timers = (st.nextTimer :>
                              [callback EXCEPT !.due = st.now + delay + 500])
                              @@ st.timers,
               !.nextTimer = st.nextTimer + 1]

\* setTimeout(callback, delay): the handle is st.nextTimer - 1 afterwards.
SetTimeout(st, callback, delay) ==
    [st EXCEPT !.timers = (st.nextTimer :> [callback EXCEPT !.due = st.now + delay])
                              @@ st.timers,
               !.nextTimer = st.nextTimer + 1]

\* clearTimeout(handle): null and fired handles are ignored.
ClearTimeout(st, handle) ==
    [st EXCEPT !.timers = [t \in (DOMAIN st.timers) \ {handle} |-> st.timers[t]]]

(***************************************************************************)
(* Frame handler: the body of the for loop of the data listener.           *)
(***************************************************************************)
RECURSIVE SumPayloadLength(_)
\* frames.map(f => f.payloadLength).reduce((acc, cur) => acc + cur, 0)
SumPayloadLength(frames) ==
    IF frames = <<>> THEN 0
    ELSE Head(frames).payloadLength + SumPayloadLength(Tail(frames))

RECURSIVE ConcatPayloadData(_)
\* frames.map(f => f.payloadData).reduce((acc, cur) => Buffer.concat([acc, cur]))
ConcatPayloadData(frames) ==
    IF frames = <<>> THEN <<>>
    ELSE Head(frames).payloadData \o ConcatPayloadData(Tail(frames))

\* The value emitted when a continuation frame with FIN arrives: the
\* (decoded.opcode == 1) test sits inside the (decoded.opcode == 0) branch.
ReassembledData(all, decoded, enc) ==
    IF decoded.opcode = 1
    THEN BufferToString(ConcatPayloadData(all), enc)
    ELSE Bytes(ConcatPayloadData(all))

\* opcode 0: a continuation frame.
OnContinuation(st, clientId, topic, decoded, enc) ==
    LET pushed == Append(st.frames, decoded)
        after ==
            IF decoded.FIN /\ ~decoded.waiting
            THEN [Emit(st, MessageEvent(topic, clientId,
                                        ReassembledData(pushed, decoded, enc)))
                     EXCEPT !.frames = <<>>]
            ELSE [st EXCEPT !.frames = pushed]
    IN  [after EXCEPT !.next = decoded.next]

\* opcode 1: a text frame.
OnText(st, clientId, topic, decoded, enc) ==
    LET after ==
            IF decoded.FIN /\ ~decoded.waiting
            THEN Emit(st, MessageEvent(topic, clientId,
                                       BufferToString(decoded.payloadData, enc)))
            ELSE [st EXCEPT !.frames = Append(@, decoded)]
    IN  [after EXCEPT !.next = decoded.next]

\* opcode 2: a binary frame.
OnBinary(st, clientId, topic, decoded) ==
    LET after ==
            IF decoded.FIN /\ ~decoded.waiting
            THEN Emit(st, MessageEvent(topic, clientId, Bytes(decoded.payloadData)))
            ELSE [st EXCEPT !.frames = Append(@, decoded)]
    IN  [after EXCEPT !.next = decoded.next]

\* The ping branch without its clearTimeout of the pong emit timer.
OnPingWithoutClear(st, clientId, s, decoded) ==
    IF decoded.payloadLength <= 125
    THEN IF clientId \notin DOMAIN st.clients THEN Throw(st)
         ELSE LET cleared == st
                  armed == SetTimeout(cleared,
                               Callback("pong", clientId, s, decoded.payloadData),
                               3000)
                  st1 == [armed EXCEPT
                             !.clients[clientId].pong.timer = armed.nextTimer - 1]
              IN  IF st1.clients[clientId].pong.timerSecurity = NoTimer
                  THEN LET sec == SetTimeout(st1,
                                     Callback("timerSecurity", clientId, s, <<>>),
                                     3000 * 3)
                       IN  [sec EXCEPT !.clients[clientId].pong.timerSecurity =
                                           sec.nextTimer - 1]
                  ELSE st1
    ELSE EmitCloseAndClose(st, clientId, 1003)

\* The pong branch without its comparison of the payload.
OnPongAnyPayload(st, clientId, decoded) ==
    IF decoded.payloadLength <= 125
    THEN IF clientId \notin DOMAIN st.clients THEN Throw(st)
         ELSE IF TRUE
              THEN ClearTimeout(
                       [st EXCEPT !.clients[clientId].ping.content = RandomToken],
                       st.clients[clientId].ping.timer)
              ELSE st
    ELSE EmitCloseAndClose(st, clientId, 1003)

\* opcode 9: a ping. Reading this.#clients[clientId].pong of a removed
\* client is a TypeError.
OnPing(st, clientId, s, decoded) ==
    IF decoded.payloadLength <= 125
    THEN IF clientId \notin DOMAIN st.clients THEN Throw(st)
         ELSE LET cleared == ClearTimeout(st, st.clients[clientId].pong.timer)
                  armed == SetTimeout(cleared,
                               Callback("pong", clientId, s, decoded.payloadData),
                               3000)
                  st1 == [armed EXCEPT
                             !.clients[clientId].pong.timer = armed.nextTimer - 1]
              IN  IF st1.clients[clientId].pong.timerSecurity = NoTimer
                  THEN LET sec == SetTimeout(st1,
                                     Callback("timerSecurity", clientId, s, <<>>),
                                     3000 * 3)
                       IN  [sec EXCEPT !.clients[clientId].pong.timerSecurity =
                                           sec.nextTimer - 1]
                  ELSE st1
    ELSE EmitCloseAndClose(st, clientId, 1003)

\* opcode 10: a pong.
OnPong(st, clientId, decoded) ==
    IF decoded.payloadLength <= 125
    THEN IF clientId \notin DOMAIN st.clients THEN Throw(st)
         ELSE IF BufferToString(decoded.payloadData, "utf8").chars
                    = st.clients[clientId].ping.content
              THEN ClearTimeout(
                       [st EXCEPT !.clients[clientId].ping.content = RandomToken],
                       st.clients[clientId].ping.timer)
              ELSE st
    ELSE EmitCloseAndClose(st, clientId, 1003)

\* The size test with the frame measured alone, the pending fragments
\* left out.
TooBigAlone(frames, decoded, limit) ==
    limit > 0 /\ decoded.payloadLength > limit

\* The cumulative payload test that precedes the opcode dispatch.
TooBig(frames, decoded, limit) ==
    limit > 0 /\ decoded.payloadLength + SumPayloadLength(frames) > limit

\* One iteration of the for loop over the decoded frames.
HandleFrame(st, clientId, s, topic, decoded, enc, limit) ==
    IF decoded.kind = "null" THEN EmitCloseAndClose(st, clientId, 1003)
    ELSE IF TooBig(st.frames, decoded, limit)
    THEN EmitCloseAndClose(st, clientId, 1009)
    ELSE IF decoded.opcode = 0 THEN OnContinuation(st, clientId, topic, decoded, enc)
    ELSE IF decoded.opcode = 1 THEN OnText(st, clientId, topic, decoded, enc)
    ELSE IF decoded.opcode = 2 THEN OnBinary(st, clientId, topic, decoded)
    ELSE IF decoded.opcode >= 3 /\ decoded.opcode <= 7
    THEN EmitCloseAndClose(st, clientId, 1003)
    ELSE IF decoded.opcode = 8 THEN EmitCloseAndClose(st, clientId, 1000)
    ELSE IF decoded.opcode = 9 THEN OnPing(st, clientId, s, decoded)
    ELSE IF decoded.opcode = 10 THEN OnPong(st, clientId, decoded)
    ELSE EmitCloseAndClose(st, clientId, 1003)

RECURSIVE Dispatch(_, _, _, _, _, _, _)
\* for (let decoded of data) { ... }: an exception ends the loop.
Dispatch(st, clientId, s, topic, data, enc, limit) ==
    IF data = <<>> \/ st.threw THEN st
    ELSE Dispatch(HandleFrame(st, clientId, s, topic, Head(data), enc, limit),
                  clientId, s, topic, Tail(data), enc, limit)

(***************************************************************************)
(* Connection reader: the data listener.                                   *)
(***************************************************************************)
RECURSIVE DecodeRest(_)
\* The while loop: as long as the last result is a complete frame followed
\* by more bytes, decode those and blank the frame's next. The result is
\* the list, or Thrown when a decode threw.
DecodeRest(data) ==
    LET last == data[Len(data)]
    IN  IF last.kind = "frame" /\ ~last.waiting /\ Len(last.next) > 0
        THEN LET more == Decode(last.next)
             IN  IF more.kind = "throw" THEN <<Thrown>>
                 ELSE DecodeRest(
                          Append([data EXCEPT ![Len(data)].next = <<>>], more))
        ELSE data

\* data = [this.#decode(Buffer.concat([next, data]))] and the while loop.
ReadFrames(buffer) ==
    LET first == Decode(buffer)
    IN  IF first.kind = "throw" THEN <<Thrown>> ELSE DecodeRest(<<first>>)

\* socket.on('data', data => ...)
DataListener(st, clientId, s, topic, chunk, enc, limit) ==
    IF clientId \notin DOMAIN st.clients THEN st
    ELSE LET data == ReadFrames(st.next \o chunk)
             last == data[Len(data)]
         IN  IF last.kind = "throw" THEN Throw(st)
             ELSE IF last.kind = "frame" /\ last.waiting
             THEN [st EXCEPT !.next = last.next]
             ELSE Dispatch(st, clientId, s, topic, data, enc, limit)


(***************************************************************************)
(* Handshake: server.on('upgrade', async (req, socket, head) => ...).      *)
(***************************************************************************)
\* A handler state with the fields the operators above expect.
State(s) ==
    [clients |-> clients, sockets |-> sockets, timers |-> timers,
     nextTimer |-> nextTimer, emitted |-> emitted[s], threw |-> FALSE,
     result |-> "", next |-> conn[s].next, frames |-> conn[s].frames,
     now |-> now]

NoRequest ==
    [upgrade |-> <<>>, version |-> 0, origin |-> Missing, host |-> <<>>,
     cookie |-> {}, path |-> ""]

IdleConn ==
    [pc |-> "idle", req |-> NoRequest, listening |-> FALSE, clientId |-> <<>>,
     topic |-> "", next |-> <<>>, frames |-> <<>>]

\* req.headers['sec-webSocket-origin']: node lower-cases the names of the
\* headers it stores, so no request has a header under this key.
SecWebSocketOrigin(req) == Missing

\* req.headers['origin'] || req.headers['sec-webSocket-origin']
OriginOrFallback(req) ==
    IF req.origin.has /\ req.origin.val # <<>> THEN req.origin
    ELSE SecWebSocketOrigin(req)

\* /^(8|13)$/.test(+req.headers['sec-websocket-version'].trim())
VersionAccepted(version) == version \in {8, 13}

\* The origin test of the 403 branch, on the trimmed origin.
OriginRefused(origin, host, allowed) ==
    /\ ~Includes(origin, Trim(host))
    /\ ~\E i \in 1..Len(allowed) :
            allowed[i] = <<Star>> \/ allowed[i] = Trim(origin)

\* Object.keys(this.#clients).filter(id => ...remoteAddress == ...).length
SameAddress(registry, socks, s) ==
    Cardinality({id \in DOMAIN registry :
        socks[registry[id].socket].remoteAddress = socks[s].remoteAddress})

\* The per-IP test with the records counted alone, the request left out.
OverLimitWithoutRequest(registry, socks, s, limit) ==
    limit > 0 /\ SameAddress(registry, socks, s) > limit

\* The per-IP test of the 429 branch.
OverLimit(registry, socks, s, limit) ==
    limit > 0 /\ SameAddress(registry, socks, s) + 1 > limit

\* The 400 / 426 chain that precedes the origin test.
AfterUpgradeAndVersion(socks, s, req) ==
    IF Trim(req.upgrade) # websocket
    THEN SocketDestroy(SocketEndWith(socks, s, HttpResponse(400)), s)
    ELSE IF ~VersionAccepted(req.version)
    THEN SocketDestroy(SocketEndWith(socks, s, HttpResponse(426)), s)
    ELSE socks

\* What the handler still reads of req after the upgrade and version
\* tests: headers['origin'] (overwritten at line 671), host, cookie, url.
Kept(req, origin) ==
    [NoRequest EXCEPT !.origin = origin, !.host = req.host,
                      !.cookie = req.cookie, !.path = req.path]

\* The handler up to its await: lines 671-698.
UpgradeBegin(s, req) ==
    /\ conn[s].pc = "idle"
    /\ ~sockets[s].destroyed
    /\ LET header == OriginOrFallback(req)
           accepted == sockets
       IN  IF ~header.has
           THEN \* undefined.trim(): the async handler rejects
                /\ sockets' = accepted
                /\ conn' = [conn EXCEPT ![s].pc = "threw", ![s].req = Kept(req, header)]
                /\ uncaught' = [uncaught EXCEPT ![s] = Append(@, "upgrade")]
           ELSE LET origin == Trim(header.val)
                    socks == AfterUpgradeAndVersion(accepted, s, req)
                IN  /\ uncaught' = uncaught
                    /\ IF OriginRefused(origin, req.host, allowOrigin)
                       THEN /\ sockets' = SocketDestroy(
                                    SocketEndWith(socks, s, HttpResponse(403)), s)
                            /\ conn' = [conn EXCEPT ![s].pc = "done",
                                                     ![s].req = Kept(req, Header(origin))]
                       ELSE IF OverLimit(clients, socks, s, limitByIP)
                       THEN /\ sockets' = SocketDestroy(
                                    SocketEndWith(socks, s, HttpResponse(429)), s)
                            /\ conn' = [conn EXCEPT ![s].pc = "done",
                                                     ![s].req = Kept(req, Header(origin))]
                       ELSE /\ sockets' = socks
                            /\ conn' = [conn EXCEPT ![s].pc = "await",
                                                     ![s].req = Kept(req, Header(origin))]
    /\ UNCHANGED <<config, aside, clients, timers, nextTimer, nextUuid, emitted,
                   wire, sent>>

\* The test of the cookie's id without its look at the registry.
NeedsNewIdWhenEmpty(cookie, registry, socks) ==
    \/ cookie = {}
    \/ \E id \in cookie : id = <<>>

\* The id taken from the cookie is replaced by a new one when it is empty
\* or names a record whose socket is not destroyed.
NeedsNewId(cookie, registry, socks) ==
    \/ cookie = {}
    \/ \E id \in cookie :
          \/ id = <<>>
          \/ id \in DOMAIN registry /\ ~socks[registry[id].socket].destroyed

\* The record stored in this.#clients on acceptance.
NewClient(s, path) ==
    [socket |-> s,
     ping |-> [timer |-> NoTimer, content |-> RandomToken],
     pong |-> [timer |-> NoTimer, timerSecurity |-> NoTimer],
     url |-> path]

\* The handler after its await: lines 699-944.
UpgradeResume(s) ==
    /\ conn[s].pc = "await"
    /\ LET req == conn[s].req
           fresh == NeedsNewId(req.cookie, clients, sockets)
           clientId == IF fresh THEN Uuid(nextUuid + 1)
                       ELSE CHOOSE id \in req.cookie : TRUE
           socks == SocketWrite(sockets, s, HttpResponse(101))
       IN  /\ nextUuid' = IF fresh THEN nextUuid + 1 ELSE nextUuid
           /\ sockets' = socks
           /\ IF ~IsUrlBase(req.origin.val)
              THEN \* new URL(req.url, origin) throws before the assignment
                   /\ conn' = [conn EXCEPT ![s].pc = "threw"]
                   /\ uncaught' = [uncaught EXCEPT ![s] = Append(@, "upgrade")]
                   /\ UNCHANGED <<clients, emitted>>
              ELSE /\ clients' = (clientId :> NewClient(s, req.path)) @@ clients
                   /\ conn' = [conn EXCEPT
                          ![s].pc = "done",
                          ![s].listening = TRUE, ![s].clientId = clientId,
                          ![s].topic = IF req.path # "/" THEN req.path
                                       ELSE "message"]
                   /\ emitted' = [emitted EXCEPT ![s] = Append(@, OpenEvent(clientId))]
                   /\ uncaught' = uncaught
    /\ UNCHANGED <<config, aside, timers, nextTimer, wire, sent>>

(***************************************************************************)
(* Transport callbacks.                                                    *)
(***************************************************************************)
\* Copies a handler's result into the next state.
Commit(st, s, kind) ==
    /\ clients' = st.clients
    /\ sockets' = st.sockets
    /\ timers' = st.timers
    /\ nextTimer' = st.nextTimer
    /\ emitted' = [emitted EXCEPT ![s] = st.emitted]
    /\ conn' = [conn EXCEPT ![s].next = st.next, ![s].frames = st.frames]
    /\ uncaught' = IF st.threw THEN [uncaught EXCEPT ![s] = Append(@, kind)]
                   ELSE uncaught

\* The peer sends one more frame.
ClientSend(s, bytes) ==
    /\ conn[s].listening
    /\ ~sockets[s].destroyed
    /\ Len(sent[s]) < MaxFrames
    /\ sent' = [sent EXCEPT ![s] = Append(@, bytes)]
    /\ wire' = [wire EXCEPT ![s] = @ \o bytes]
    /\ UNCHANGED <<config, aside, clients, sockets, conn, timers, nextTimer, nextUuid,
                   emitted, uncaught>>

\* A 'data' event carrying the first k unread bytes.
SocketData(s, k) ==
    /\ conn[s].listening
    /\ ~sockets[s].destroyed
    /\ k \in 1..Len(wire[s])
    /\ wire' = [wire EXCEPT ![s] = SubSeq(@, k + 1, Len(@))]
    /\ Commit(DataListener(State(s), conn[s].clientId, s, conn[s].topic,
                           SubSeq(wire[s], 1, k), encoding, maxPayload),
              s, "data")
    /\ UNCHANGED <<config, aside, nextUuid, sent>>

\* socket.on('close', e => ...)
CloseListener(st, clientId, hadError) ==
    LET closed == Close(st, clientId)
    IN  IF closed.result = "true"
        THEN Emit(closed, CloseEvent(clientId, IF hadError THEN 1006 ELSE 1000))
        ELSE closed

\* socket.on('error', e => ...)
ErrorListener(st, clientId) ==
    LET closed == Close(st, clientId)
    IN  IF closed.result = "true" THEN Emit(closed, ErrorEvent(clientId))
        ELSE closed

\* The transport's 'close' event: once per socket, after the server
\* destroyed it or when the peer goes away.
SocketClose(s) ==
    /\ conn[s].pc # "idle"
    /\ ~sockets[s].closed
    /\ LET socks == [sockets EXCEPT ![s].destroyed = TRUE, ![s].closed = TRUE]
           st == [State(s) EXCEPT !.sockets = socks]
       IN  IF conn[s].listening
           THEN Commit(CloseListener(st, conn[s].clientId, sockets[s].hadError),
                       s, "close")
           ELSE Commit(st, s, "close")
    /\ UNCHANGED <<config, aside, nextUuid, wire, sent>>

\* The transport's 'error' event: the socket is destroyed with an error.
SocketError(s) ==
    /\ conn[s].listening
    /\ ~sockets[s].destroyed
    /\ LET socks == [sockets EXCEPT ![s].destroyed = TRUE, ![s].hadError = TRUE]
           st == [State(s) EXCEPT !.sockets = socks]
       IN  Commit(ErrorListener(st, conn[s].clientId), s, "error")
    /\ UNCHANGED <<config, aside, nextUuid, wire, sent>>

\* The application calls close(clientId) for a registered client.
AppClose(clientId) ==
    /\ clientId \in DOMAIN clients
    /\ LET st == Close(State(clients[clientId].socket), clientId)
       IN  /\ clients' = st.clients
           /\ sockets' = st.sockets
    /\ UNCHANGED <<config, aside, conn, timers, nextTimer, nextUuid, emitted, uncaught,
                   wire, sent>>


(***************************************************************************)
(* Liveness: ping(clientId), the timer callbacks and the clock.            *)
(***************************************************************************)
\* ping(clientId, pongTimeout): st.result is "true" (socket.write) or
\* "throw" (ReferenceError).
Ping(st, clientId, timeout) ==
    IF clientId \in DOMAIN st.clients
       /\ ~st.sockets[st.clients[clientId].socket].destroyed
    THEN LET s == st.clients[clientId].socket
             named == [st EXCEPT !.clients[clientId].ping.content = clientId]
             armed == IF timeout > 0
                      THEN LET set == SetTimeout(named,
                                          Callback("ping", clientId, s, <<>>),
                                          timeout)
                           IN  [set EXCEPT !.clients[clientId].ping.timer =
                                               set.nextTimer - 1]
                      ELSE named
         IN  [armed EXCEPT
                 !.sockets = SocketWrite(@, s, FrameWrite(Encode(clientId, 9))),
                 !.result = "true"]
    ELSE [Throw(st) EXCEPT !.result = "throw"]

\* The timer callbacks with a pong emit callback that leaves the abort
\* timer armed.
FireWithoutDisarm(st, handle) ==
    LET callback == st.timers[handle]
        clientId == callback.clientId
        fired == ClearTimeout(st, handle)
    IN  IF callback.kind = "ping" THEN EmitCloseAndClose(fired, clientId, 1011)
        ELSE IF callback.kind = "timerSecurity"
        THEN EmitCloseAndClose(fired, clientId, 1006)
        ELSE LET wrote == [fired EXCEPT !.sockets =
                              SocketWrite(@, callback.socket,
                                  FrameWrite(Encode(callback.payload, 10)))]
             IN  IF clientId \notin DOMAIN wrote.clients THEN Throw(wrote)
                 ELSE wrote

\* The callback of timer `handle` runs: the ping deadline (lines 1365-1371),
\* the pong emit timer (857-864) or the pong abort timer (869-875).
Fire(st, handle) ==
    LET callback == st.timers[handle]
        clientId == callback.clientId
        fired == ClearTimeout(st, handle)
    IN  IF callback.kind = "ping" THEN EmitCloseAndClose(fired, clientId, 1011)
        ELSE IF callback.kind = "timerSecurity"
        THEN EmitCloseAndClose(fired, clientId, 1006)
        ELSE LET wrote == [fired EXCEPT !.sockets =
                              SocketWrite(@, callback.socket,
                                  FrameWrite(Encode(callback.payload, 10)))]
             IN  IF clientId \notin DOMAIN wrote.clients THEN Throw(wrote)
                 ELSE [ClearTimeout(wrote, wrote.clients[clientId].pong.timerSecurity)
                          EXCEPT !.clients[clientId].pong.timerSecurity = NoTimer]

\* What an observer of connection 1 notes when the server reads a frame:
\* a ping (and whether it continues a run of pings less than 1 s apart, or
\* is the first since the server last wrote a pong), or a pong with the
\* payload the server's pings carry (it answers the oldest ping still
\* waiting whose deadline is still ahead, and covers every ping whose
\* deadline timer has not had to fire yet: at the very instant of a deadline
\* the pong and the timer may run in either order).
Heard(j, bytes, clientId) ==
    LET op == bytes[1] % 16
        due(i) == j.pings[i].timeout < 1 \/ now < j.pings[i].at + j.pings[i].timeout
        waiting == {i \in 1..Len(j.pings) : due(i) /\ ~j.pings[i].answered}
    IN  IF op = 9
        THEN [j EXCEPT !.pingsRead = @ + 1,
                       !.lastPingRead = now,
                       !.runStart = IF j.lastPingRead # -1
                                       /\ now - j.lastPingRead < 1000
                                    THEN @ ELSE now,
                       !.burstStart = IF @ = -1 THEN now ELSE @]
        ELSE IF op = 10
        THEN [j EXCEPT !.pongsRead = @ + 1,
                       !.pings = IF Decode(bytes).payloadData # clientId THEN @
                                 ELSE [i \in 1..Len(@) |->
                                    [@[i] EXCEPT
                                       !.covered = @ \/ due(i)
                                           \/ now = j.pings[i].at + j.pings[i].timeout,
                                       !.answered = @ \/ (i \in waiting /\
                                           \A k \in waiting : i <= k)]]]
        ELSE j

\* A 'data' event that carries one whole frame of the peer.
PeerFrame(s, bytes) ==
    /\ conn[s].listening
    /\ ~sockets[s].destroyed
    /\ Commit(DataListener(State(s), conn[s].clientId, s, conn[s].topic, bytes,
                           encoding, maxPayload),
              s, "data")
    /\ journal' = Heard(journal, bytes, conn[s].clientId)
    /\ UNCHANGED <<config, nextUuid, wire, sent, now, returned, probe>>

\* The application, or the periodic task of set pingDelay, calls
\* ping(clientId) for a registered client.
ServerPing(clientId) ==
    /\ clientId \in DOMAIN clients
    /\ LET s == clients[clientId].socket
           st == Ping(State(s), clientId, pongTimeout)
       IN  /\ Commit(st, s, "ping")
           /\ journal' = [journal EXCEPT !.pings =
                              IF st.result = "true"
                              THEN Append(@, [at |-> now, timeout |-> pongTimeout,
                                              answered |-> FALSE,
                                              covered |-> FALSE])
                              ELSE @]
    /\ UNCHANGED <<config, nextUuid, wire, sent, now, returned, probe>>

\* A timer that is due runs its callback.
TimerFire(handle) ==
    /\ handle \in DOMAIN timers
    /\ timers[handle].due <= now
    /\ LET s == timers[handle].socket
           id == timers[handle].clientId
           st == Fire(State(s), handle)
       IN  /\ Commit(st, s, "timer")
           /\ journal' = [journal EXCEPT
                  !.pongsAt = IF timers[handle].kind = "pong"
                              THEN Append(@, now) ELSE @,
                  !.burstStart = IF timers[handle].kind = "pong" THEN -1 ELSE @,
                  !.closedAt = IF @ = -1 /\ id \in DOMAIN clients
                                  /\ id \notin DOMAIN st.clients
                               THEN now ELSE @]
    /\ UNCHANGED <<config, nextUuid, wire, sent, now, returned, probe>>

\* Time passes, by half a second or up to the next timer that is due: the
\* event loop runs a callback no later than its time.
Tick(horizon) ==
    /\ now < horizon
    /\ \A h \in DOMAIN timers : timers[h].due > now
    /\ LET dues == {timers[h].due : h \in DOMAIN timers}
           step == now + 500
       IN  now' = IF \E d \in dues : d < step
                  THEN CHOOSE d \in dues : \A e \in dues : d <= e
                  ELSE step
    /\ UNCHANGED <<config, clients, sockets, conn, timers, nextTimer, nextUuid,
                   emitted, uncaught, wire, sent, journal, returned, probe>>

(***************************************************************************)
(* The peers: the upgrade requests and the frames they send.               *)
(***************************************************************************)
Addresses == {"10.0.0.1", "10.0.0.2"}

\* send(clientId, data): data is a string (opcode 1) or a Buffer (opcode 2).
Send(st, clientId, data, opcode) ==
    IF clientId \in DOMAIN st.clients
       /\ ~st.sockets[st.clients[clientId].socket].destroyed
    THEN [st EXCEPT
             !.sockets = SocketWrite(@, st.clients[clientId].socket,
                                     FrameWrite(Encode(data, opcode))),
             !.result = "true"]
    ELSE [Throw(st) EXCEPT !.result = "throw"]

\* url(clientId) and the nine transport inspectors (bytesRead, bytesWritten,
\* isPaused, pause, resume, readyState, setEncoding, setKeepAlive,
\* setNoDelay): each makes the same lookup and returns a value of the record
\* or of its socket (pause, resume and the setters change flags of the socket
\* that the model does not hold).
Inspect(st, clientId) ==
    IF clientId \in DOMAIN st.clients
       /\ ~st.sockets[st.clients[clientId].socket].destroyed
    THEN [st EXCEPT !.result = "value"]
    ELSE [Throw(st) EXCEPT !.result = "throw"]

\* "inspect" is any of the nine inspectors.
Operations == {"send", "ping", "close", "url", "inspect"}

\* The application calls a facade operation; an exception is thrown to the
\* caller: the outcome "throw" is the ReferenceError('Not Found').
Call(op, clientId) ==
    LET st == IF op = "close" THEN Close(State(1), clientId)
              ELSE IF op = "ping" THEN Ping(State(1), clientId, pongTimeout)
              ELSE IF op = "send" THEN Send(State(1), clientId, <<72>>, 1)
              ELSE Inspect(State(1), clientId)
    IN  /\ clients' = st.clients
        /\ sockets' = st.sockets
        /\ timers' = st.timers
        /\ nextTimer' = st.nextTimer
        /\ returned' = [op |-> op, id |-> clientId, outcome |-> st.result,
                        seq |-> returned.seq + 1]
        /\ UNCHANGED <<config, conn, nextUuid, emitted, uncaught, wire, sent,
                       now, journal, probe>>

\* The ids randomUUID has produced so far.
Issued == {Uuid(n) : n \in 1..nextUuid}

Request(upgrade, version, origin) ==
    [upgrade |-> upgrade, version |-> version, origin |-> origin,
     host |-> HostH, cookie |-> {}, path |-> "/"]

\* The upgrade requests of the admission model (the HTTP parser has
\* stripped the white space around header values).
Requests ==
    { Request(websocket, 13, Header(OriginH)),
      Request(websocket, 8, Header(OriginH)),
      Request(<<104>>, 13, Header(OriginH)),
      Request(<<104>>, 13, Header(OriginE)),
      Request(websocket, 7, Header(OriginH)),
      Request(websocket, 7, Header(OriginE)),
      Request(websocket, 13, Missing),
      Request(websocket, 13, Header(OriginE)),
      Request(websocket, 13, Header(OriginBare)) }

\* A request every check of the handshake accepts.
StreamRequest ==
    [upgrade |-> websocket, version |-> 13, origin |-> Header(OriginH),
     host |-> HostH, cookie |-> {}, path |-> "/chat"]

MaskingKey == <<7, 0, 255, 18>>

\* A masked frame as a peer builds it (RFC 6455, section 5.2); lengthForm is
\* 7, 16 or 64: the width of the length field used.
ClientFrame(fin, opcode, lengthForm, payload) ==
    <<(IF fin THEN 128 ELSE 0) + opcode>>
    \o (IF lengthForm = 7 THEN <<128 + Len(payload)>>
        ELSE IF lengthForm = 16 THEN <<128 + 126>> \o BigEndian(Len(payload), 2)
        ELSE <<128 + 127>> \o BigEndian(Len(payload), 8))
    \o MaskingKey
    \o Unmask(payload, MaskingKey)

\* The frames the peers of the model send.
ClientFrames ==
    { ClientFrame(TRUE, 1, 7, <<65>>),
      ClientFrame(FALSE, 1, 7, <<65>>),
      ClientFrame(FALSE, 2, 7, <<67>>),
      ClientFrame(FALSE, 0, 7, <<66>>),
      ClientFrame(TRUE, 0, 7, <<66, 68>>),
      ClientFrame(TRUE, 2, 16, <<69>>),
      ClientFrame(TRUE, 8, 7, <<>>),
      ClientFrame(TRUE, 9, 7, <<70>>),
      ClientFrame(TRUE, 10, 7, <<>>),
      ClientFrame(TRUE, 3, 7, <<>>) }

(***************************************************************************)
(* Construction and the specifications.                                    *)
(***************************************************************************)
DefaultLimitByIP == 256
DefaultMaxPayload == 2621440
DefaultPingDelay == 180000
DefaultPongTimeout == 5000
DefaultSessionExpires == 43200000

NewSocket(address) ==
    [remoteAddress |-> address, ended |-> FALSE, destroyed |-> FALSE,
     hadError |-> FALSE, closed |-> FALSE, written |-> <<>>]

\* What every construction starts with: no client, no upgrade seen.
\* Nothing observed yet.
NoJournal ==
    [pings |-> <<>>, pongsRead |-> 0, pongsAt |-> <<>>, pingsRead |-> 0,
     lastPingRead |-> -1, runStart |-> -1, burstStart |-> -1, closedAt |-> -1]

\* No facade operation called yet.
NoCall == [op |-> "", id |-> <<>>, outcome |-> "", seq |-> 0]

NoProbe == [stage |-> "none", p |-> <<>>, op |-> 0, key |-> <<>>, decoded |-> Null]

Constructed ==
    /\ now = 0
    /\ journal = NoJournal
    /\ returned = NoCall
    /\ probe = NoProbe
    /\ clients = << >>
    /\ conn = [s \in Sockets |-> IdleConn]
    /\ timers = << >>
    /\ nextTimer = 1
    /\ nextUuid = 0
    /\ emitted = [s \in Sockets |-> <<>>]
    /\ uncaught = [s \in Sockets |-> <<>>]
    /\ wire = [s \in Sockets |-> <<>>]
    /\ sent = [s \in Sockets |-> <<>>]

\* No value: the argument of an assignment of undefined.
Undefined == [type |-> "undefined"]

\* The application assigns an option: ws[option] = arg. An undefined argument
\* is replaced by the default value of the setter's parameter. The
\* pingDelay setter also replaces the periodic task.
SetOption(option, arg) ==
    LET given == IF arg.type # "undefined" THEN arg
                 ELSE IF option = "allowOrigin" THEN NullArg
                 ELSE IF option = "encoding" THEN StringArg("utf8")
                 ELSE IF option = "limitByIP" THEN NumberArg(DefaultLimitByIP)
                 ELSE IF option = "maxPayload" THEN NumberArg(DefaultMaxPayload)
                 ELSE IF option = "pingDelay" THEN NumberArg(DefaultPingDelay)
                 ELSE IF option = "pongTimeout" THEN NumberArg(DefaultPongTimeout)
                 ELSE NumberArg(DefaultSessionExpires)
    IN  /\ allowOrigin' = IF option = "allowOrigin"
                          THEN SetAllowOrigin(allowOrigin, given) ELSE allowOrigin
        /\ encoding' = IF option = "encoding"
                       THEN SetEncoding(encoding, given) ELSE encoding
        /\ limitByIP' = IF option = "limitByIP"
                        THEN SetNumber(limitByIP, given) ELSE limitByIP
        /\ maxPayload' = IF option = "maxPayload"
                         THEN SetNumber(maxPayload, given) ELSE maxPayload
        /\ \E set \in {IF option = "pingDelay"
                       THEN SetPingDelay(PingDelay, given) ELSE PingDelay} :
               /\ pingDelay' = set.time
               /\ pingTimer' = set.timer
               /\ intervals' = set.intervals
        /\ pongTimeout' = IF option = "pongTimeout"
                          THEN SetNumber(pongTimeout, given) ELSE pongTimeout
        /\ sessionExpires' = IF option = "sessionExpires"
                             THEN SetNumber(sessionExpires, given)
                             ELSE sessionExpires
        /\ UNCHANGED <<clients, sockets, conn, timers, nextTimer, nextUuid,
                       emitted, uncaught, wire, sent, now, journal, returned>>

\* The getters: ws[option].
Get(option) ==
    IF option = "allowOrigin" THEN allowOrigin
    ELSE IF option = "encoding" THEN encoding
    ELSE IF option = "limitByIP" THEN limitByIP
    ELSE IF option = "maxPayload" THEN maxPayload
    ELSE IF option = "pingDelay" THEN pingDelay
    ELSE IF option = "pongTimeout" THEN pongTimeout
    ELSE sessionExpires

\* new WebSocket(server, {allowOrigin, limitByIP})
Init ==
    /\ Constructed
    /\ \E address \in [Sockets -> Addresses] :
           /\ address[1] = "10.0.0.1"
           /\ sockets = [s \in Sockets |-> NewSocket(address[s])]
    /\ allowOrigin \in {SetAllowOrigin(<<>>, arg) :
           arg \in {NullArg, StringArg(<<Star, Space>>),
                    ListArg(<<OriginBare, <<Space>>, OriginE>>)}}
    /\ encoding = SetEncoding("", StringArg("utf8"))
    /\ limitByIP \in {SetNumber(0, NumberArg(n)) : n \in {0, 1, 2}}
    /\ maxPayload = SetNumber(0, NumberArg(DefaultMaxPayload))
    /\ PingDelayIs(SetPingDelay(NoPingDelay, NumberArg(DefaultPingDelay)))
    /\ pongTimeout = SetNumber(0, NumberArg(DefaultPongTimeout))
    /\ sessionExpires = SetNumber(0, NumberArg(DefaultSessionExpires))

\* Sockets are interchangeable: their upgrade events are taken in order.
InOrder(s) == IF s = 1 THEN TRUE ELSE conn[s - 1].pc # "idle"

Upgrade ==
    \E s \in Sockets, req \in Requests : InOrder(s) /\ UpgradeBegin(s, req)

Resume == \E s \in Sockets : UpgradeResume(s)

TransportClose == \E s \in Sockets : conn[s].listening /\ SocketClose(s)

Next ==
    \/ Upgrade
    \/ Resume
    \/ TransportClose

Spec == Init /\ [][Next]_vars

\* new WebSocket(server, {encoding, maxPayload}), one peer.
InitStream ==
    /\ Constructed
    /\ sockets = [s \in Sockets |-> NewSocket("10.0.0.1")]
    /\ allowOrigin = SetAllowOrigin(<<>>, NullArg)
    /\ limitByIP = SetNumber(0, NumberArg(DefaultLimitByIP))
    /\ PingDelayIs(SetPingDelay(NoPingDelay, NumberArg(DefaultPingDelay)))
    /\ pongTimeout = SetNumber(0, NumberArg(DefaultPongTimeout))
    /\ sessionExpires = SetNumber(0, NumberArg(DefaultSessionExpires))
    /\ \E options \in {<<"utf8", 0>>, <<"hex", 3>>, <<"utf8", 2>>} :
           /\ encoding = SetEncoding("", StringArg(options[1]))
           /\ maxPayload = SetNumber(0, NumberArg(options[2]))

StreamUpgrade == UpgradeBegin(1, StreamRequest)

StreamResume == UpgradeResume(1)

StreamSend == \E bytes \in ClientFrames : ClientSend(1, bytes)

RECURSIVE TotalLength(_)
\* The number of bytes of a list of frames.
TotalLength(list) ==
    IF list = <<>> THEN 0 ELSE Len(Head(list)) + TotalLength(Tail(list))

\* The cuts of the unread bytes that fall between two frames.
FrameBoundaries(s) ==
    {TotalLength(SubSeq(sent[s], 1, j)) - (TotalLength(sent[s]) - Len(wire[s])) :
        j \in 1..Len(sent[s])} \cap (1..Len(wire[s]))

\* Reads that carry whole frames, one or several.
StreamData == \E k \in FrameBoundaries(1) : SocketData(1, k)

NextStream ==
    \/ StreamUpgrade
    \/ StreamResume
    \/ StreamSend
    \/ StreamData

SpecStream == InitStream /\ [][NextStream]_vars

\* The frames of the peer whose byte stream is cut anywhere.
ReaderFrames ==
    { ClientFrame(TRUE, 1, 7, <<65>>),
      ClientFrame(FALSE, 1, 7, <<65>>),
      ClientFrame(TRUE, 0, 7, <<66, 68>>),
      ClientFrame(TRUE, 2, 16, <<69>>) }

\* new WebSocket(server), one peer.
InitReader ==
    /\ Constructed
    /\ sockets = [s \in Sockets |-> NewSocket("10.0.0.1")]
    /\ allowOrigin = SetAllowOrigin(<<>>, NullArg)
    /\ encoding = SetEncoding("", StringArg("utf8"))
    /\ limitByIP = SetNumber(0, NumberArg(DefaultLimitByIP))
    /\ maxPayload = SetNumber(0, NumberArg(DefaultMaxPayload))
    /\ PingDelayIs(SetPingDelay(NoPingDelay, NumberArg(DefaultPingDelay)))
    /\ pongTimeout = SetNumber(0, NumberArg(DefaultPongTimeout))
    /\ sessionExpires = SetNumber(0, NumberArg(DefaultSessionExpires))

ReaderUpgrade == UpgradeBegin(1, StreamRequest)

ReaderResume == UpgradeResume(1)

ReaderSend == \E bytes \in ReaderFrames : ClientSend(1, bytes)

\* Reads that cut the byte stream anywhere (TCP segmentation).
ReaderData == \E k \in 1..Len(wire[1]) : SocketData(1, k)

NextReader ==
    \/ ReaderUpgrade
    \/ ReaderResume
    \/ ReaderSend
    \/ ReaderData

SpecReader == InitReader /\ [][NextReader]_vars


(***************************************************************************)
(* One connection read in arbitrary chunks, control frames between the     *)
(* data frames.                                                            *)
(***************************************************************************)
\* ws.maxPayload = n while a peer sends fragmented messages.
NextLimit ==
    \/ NextStream
    \/ \E n \in {1, 3} : SetOption("maxPayload", NumberArg(n)) /\ UNCHANGED probe

SpecLimit == InitStream /\ [][NextLimit]_vars

MixedFrames ==
    { ClientFrame(TRUE, 1, 7, <<65>>),
      ClientFrame(FALSE, 2, 7, <<66>>),
      ClientFrame(TRUE, 0, 7, <<68>>),
      ClientFrame(TRUE, 9, 7, <<>>) }

NextMixed ==
    \/ UpgradeBegin(1, StreamRequest)
    \/ UpgradeResume(1)
    \/ \E bytes \in MixedFrames : ClientSend(1, bytes)
    \/ ReaderData

SpecMixed == InitReader /\ [][NextMixed]_vars

(***************************************************************************)
(* One connection whose peer sends frames the handler must refuse.         *)
(***************************************************************************)
\* 126 bytes: one more than a control frame may carry.
LongPayload == [i \in 1..126 |-> 65]

\* An oversized ping and pong, an unmasked frame, a 64-bit length with a
\* non-zero high word, the reserved opcodes 3 and 11, and two data frames.
InvalidFrames ==
    { ClientFrame(TRUE, 9, 16, LongPayload),
      ClientFrame(TRUE, 10, 16, LongPayload),
      <<129, 1, 65>>,
      <<130, 255, 0, 0, 0, 1, 0, 0, 0, 1>> \o MaskingKey \o <<65>>,
      ClientFrame(TRUE, 3, 7, <<65>>),
      ClientFrame(TRUE, 11, 7, <<>>),
      ClientFrame(FALSE, 1, 7, <<65, 66>>),
      ClientFrame(TRUE, 1, 7, <<65>>) }

NextInvalid ==
    \/ UpgradeBegin(1, StreamRequest)
    \/ UpgradeResume(1)
    \/ \E bytes \in InvalidFrames : ClientSend(1, bytes)
    \/ StreamData

SpecInvalid == InitStream /\ [][NextInvalid]_vars

(***************************************************************************)
(* One connection whose peer is pinged by the server.                      *)
(***************************************************************************)
MaxPings == 2
PingHorizon == 3000

\* new WebSocket(server, {pongTimeout})
InitLive ==
    /\ Constructed
    /\ sockets = [s \in Sockets |-> NewSocket("10.0.0.1")]
    /\ allowOrigin = SetAllowOrigin(<<>>, NullArg)
    /\ encoding = SetEncoding("", StringArg("utf8"))
    /\ limitByIP = SetNumber(0, NumberArg(DefaultLimitByIP))
    /\ maxPayload = SetNumber(0, NumberArg(DefaultMaxPayload))
    /\ PingDelayIs(SetPingDelay(NoPingDelay, NumberArg(DefaultPingDelay)))
    /\ pongTimeout \in {SetNumber(0, NumberArg(n)) : n \in {0, 2000}}
    /\ sessionExpires = SetNumber(0, NumberArg(DefaultSessionExpires))

LivePing ==
    /\ Len(journal.pings) < MaxPings
    /\ \E clientId \in DOMAIN clients : ServerPing(clientId)

\* The peer's pong: with the payload of the server's ping, or with none.
LivePong ==
    /\ journal.pongsRead < MaxPings
    /\ \E payload \in {conn[1].clientId, <<>>} :
           PeerFrame(1, ClientFrame(TRUE, 10, 7, payload))

NextLive ==
    \/ UpgradeBegin(1, StreamRequest)
    \/ UpgradeResume(1)
    \/ LivePing
    \/ LivePong
    \/ \E handle \in DOMAIN timers : TimerFire(handle)
    \/ Tick(PingHorizon)

SpecLive == InitLive /\ [][NextLive]_vars

(***************************************************************************)
(* One connection whose peer sends pings.                                  *)
(***************************************************************************)
FloodHorizon == 10000

\* The payload of the ping a peer sends at time t: pings half a second
\* apart differ.
PingPayload(t) == <<70 + ((t \div 500) % 3)>>

\* The peer's ping, at most one per instant.
FloodPing ==
    /\ journal.lastPingRead < now
    /\ PeerFrame(1, ClientFrame(TRUE, 9, 7, PingPayload(now)))

NextFlood ==
    \/ UpgradeBegin(1, StreamRequest)
    \/ UpgradeResume(1)
    \/ FloodPing
    \/ \E handle \in DOMAIN timers : TimerFire(handle)
    \/ Tick(FloodHorizon)

SpecFlood == InitReader /\ [][NextFlood]_vars

(***************************************************************************)
(* The facade: the application calls the operations while peers connect    *)
(* and leave.                                                              *)
(***************************************************************************)
MaxCalls == 2

\* The peer goes away, at any time after its upgrade request: also while the
\* handler waits for its import.
FacadeLeave == \E s \in Sockets : SocketClose(s)

\* A call with an id of a connection or with an id never given out.
FacadeCall ==
    /\ returned.seq < MaxCalls
    /\ \E op \in Operations, clientId \in Issued \cup {Uuid(0)} :
           Call(op, clientId)

NextFacade ==
    \/ \E s \in Sockets : InOrder(s) /\ UpgradeBegin(s, StreamRequest)
    \/ \E s \in Sockets : UpgradeResume(s)
    \/ FacadeLeave
    \/ FacadeCall

SpecFacade == InitReader /\ [][NextFacade]_vars

(***************************************************************************)
(* The options: the application assigns them after the construction.       *)
(***************************************************************************)
Options ==
    {"allowOrigin", "encoding", "limitByIP", "maxPayload", "pingDelay",
     "pongTimeout", "sessionExpires"}

\* An assignment of a value of the option's type, of a value of another
\* type, of a string that names no encoding, or of undefined.
ConfigAssign ==
    \E option \in Options :
        \E arg \in IF option = "allowOrigin"
                   THEN {NullArg, StringArg(<<Space, Star>>), NumberArg(5),
                         Undefined}
                   ELSE IF option = "encoding"
                   THEN {StringArg("hex"), StringArg("latin1"), NumberArg(5),
                         Undefined}
                   ELSE {NumberArg(0), NumberArg(5), StringArg("5"), NullArg,
                         Undefined} :
            /\ SetOption(option, arg)
            /\ probe' = [stage |-> "assigned", option |-> option, arg |-> arg]

SpecConfig == InitReader /\ [][ConfigAssign]_vars

(***************************************************************************)
(* The periodic task of set pingDelay, while peers connect and leave and   *)
(* the application assigns pingDelay.                                      *)
(***************************************************************************)
RECURSIVE InsertionOrder(_)
\* for (let clientId in this.#clients): the keys in the order of their
\* insertion, which for ids of randomUUID that are registered once is the
\* order of their generation.
InsertionOrder(ids) ==
    IF ids = {} THEN <<>>
    ELSE LET first == CHOOSE id \in ids : \A other \in ids : id[2] <= other[2]
         IN  <<first>> \o InsertionOrder(ids \ {first})

RECURSIVE PingAll(_, _, _)
\* The body of the periodic task: this.ping(clientId) for each key; an
\* exception ends the loop.
PingAll(st, ids, timeout) ==
    IF ids = <<>> \/ st.threw THEN st
    ELSE PingAll(Ping(st, Head(ids), timeout), Tail(ids), timeout)

\* A periodic task fires.
PeriodicTask ==
    /\ intervals # << >>
    /\ clients # << >>
    /\ returned.seq < MaxPings
    /\ LET order == InsertionOrder(DOMAIN clients)
           st == PingAll(State(1), order, pongTimeout)
           failed == {i \in 1..Len(order) :
                         sockets[clients[order[i]].socket].destroyed}
           culprit == order[CHOOSE i \in failed : \A j \in failed : i <= j]
       IN  /\ clients' = st.clients
           /\ sockets' = st.sockets
           /\ timers' = st.timers
           /\ nextTimer' = st.nextTimer
           /\ uncaught' = IF st.threw
                          THEN [uncaught EXCEPT ![clients[culprit].socket] =
                                    Append(@, "interval")]
                          ELSE uncaught
           /\ returned' = [op |-> "interval",
                           id |-> IF st.threw THEN culprit ELSE <<>>,
                           outcome |-> IF st.threw THEN "throw" ELSE "true",
                           seq |-> returned.seq + 1]
    /\ UNCHANGED <<config, conn, nextUuid, emitted, wire, sent, now, journal,
                   probe>>

NextPeriodic ==
    \/ \E s \in Sockets : InOrder(s) /\ UpgradeBegin(s, StreamRequest)
    \/ \E s \in Sockets : UpgradeResume(s)
    \/ \E s \in Sockets : SocketClose(s)
    \/ PeriodicTask
    \/ \E arg \in {NumberArg(0), NumberArg(5), HalfArg, StringArg("5")} :
           SetOption("pingDelay", arg) /\ UNCHANGED probe

SpecPeriodic == InitReader /\ [][NextPeriodic]_vars

(***************************************************************************)
(* Sessions: peers present the cookie jadsonlucena-websocket.              *)
(***************************************************************************)
\* An upgrade request without the cookie, with an empty one, with a value
\* the peer made up, or with an id the server gave out before.
SessionUpgrade ==
    \E s \in Sockets,
       cookie \in {{}, {<<>>}, {ForgedId}} \cup {{id} : id \in Issued} :
        /\ InOrder(s)
        /\ UpgradeBegin(s, [StreamRequest EXCEPT !.cookie = cookie])

\* new WebSocket(server, {sessionExpires})
InitSession ==
    /\ Constructed
    /\ sockets = [s \in Sockets |-> NewSocket("10.0.0.1")]
    /\ allowOrigin = SetAllowOrigin(<<>>, NullArg)
    /\ encoding = SetEncoding("", StringArg("utf8"))
    /\ limitByIP = SetNumber(0, NumberArg(DefaultLimitByIP))
    /\ maxPayload = SetNumber(0, NumberArg(DefaultMaxPayload))
    /\ PingDelayIs(SetPingDelay(NoPingDelay, NumberArg(DefaultPingDelay)))
    /\ pongTimeout = SetNumber(0, NumberArg(DefaultPongTimeout))
    /\ sessionExpires \in {SetNumber(0, NumberArg(n)) :
                               n \in {0, DefaultSessionExpires}}

NextSession ==
    \/ SessionUpgrade
    \/ \E s \in Sockets : UpgradeResume(s)
    \/ \E s \in Sockets : SocketClose(s)
    \/ \E s \in Sockets : SocketError(s)

SpecSession == InitSession /\ [][NextSession]_vars

(***************************************************************************)
(* The codec round trip: a peer masks a frame the server encoded and the   *)
(* server decodes it.                                                      *)
(***************************************************************************)
MaxShort == 3

\* Payloads: every short one over three byte values, and one of each length
\* around the limits of the three length forms.
CodecPayloads ==
    UNION {[1..n -> {0, 65, 255}] : n \in 0..MaxShort}
    \cup {[i \in 1..n |-> (7 * i) % 256] : n \in {125, 126, 127, 65535, 65536}}

CodecKeys == {<<0, 0, 0, 0>>, MaskingKey, <<255, 254, 1, 128>>}

\* What a peer does to send a server-built frame back: set the MASK bit,
\* put the key after the length field, XOR the payload with the key
\* repeated with period 4 (RFC 6455, section 5.3).
Masked(bytes, key) ==
    LET head == IF bytes[2] = 126 THEN 4 ELSE IF bytes[2] = 127 THEN 10 ELSE 2
        body == SubSeq(bytes, head + 1, Len(bytes))
    IN  <<bytes[1], bytes[2] + 128>> \o SubSeq(bytes, 3, head) \o key
        \o [i \in 1..Len(body) |-> Xor(body[i], key[((i - 1) % 4) + 1])]

\* A payload, an opcode and a masking key are chosen.
CodecDraw ==
    /\ probe.stage = "none"
    /\ \E p \in CodecPayloads, op \in {1, 2, 9, 10}, key \in CodecKeys :
           probe' = [stage |-> "input", p |-> p, op |-> op, key |-> key,
                     decoded |-> Null]
    /\ UNCHANGED <<config, clients, sockets, conn, timers, nextTimer, nextUuid,
                   emitted, uncaught, wire, sent, now, journal, returned>>

\* #encode, the peer's masking, #decode.
CodecRoundTrip ==
    /\ probe.stage = "input"
    /\ probe' = [probe EXCEPT
                    !.stage = "output",
                    !.decoded = Decode(Masked(Encode(probe.p, probe.op), probe.key))]
    /\ UNCHANGED <<config, clients, sockets, conn, timers, nextTimer, nextUuid,
                   emitted, uncaught, wire, sent, now, journal, returned>>

NextCodec ==
    \/ CodecDraw
    \/ CodecRoundTrip

SpecCodec == InitReader /\ [][NextCodec]_vars

(***************************************************************************)
(* Properties.                                                             *)
(***************************************************************************)
RECURSIVE Flatten(_)
\* The bytes of a list of frames.
Flatten(list) ==
    IF list = <<>> THEN <<>> ELSE Head(list) \o Flatten(Tail(list))

\* The fields of a frame as its sender built it.
FinOf(bytes) == bytes[1] >= 128
OpcodeOf(bytes) == bytes[1] % 16
PayloadOf(bytes) == Decode(bytes).payloadData

RECURSIVE WellFormed(_, _)
\* A frame sequence RFC 6455 allows: a text or binary frame starts a
\* message, continuation frames only follow an unfinished one, control
\* frames may stand anywhere.
WellFormed(list, assembling) ==
    IF list = <<>> THEN TRUE
    ELSE LET op == OpcodeOf(Head(list))
             fin == FinOf(Head(list))
         IN  IF op \in {1, 2}
             THEN ~assembling /\ WellFormed(Tail(list), ~fin)
             ELSE IF op = 0
             THEN assembling /\ WellFormed(Tail(list), ~fin)
             ELSE op \in {8, 9, 10} /\ fin /\ WellFormed(Tail(list), assembling)

\* The HTTP status lines written to socket s, in order.
Statuses(s) ==
    [i \in 1..Len(sockets[s].written) |-> sockets[s].written[i].data.http]

Answered(s, status) == \E i \in 1..Len(sockets[s].written) : Statuses(s)[i] = status

Registered(s) == \E id \in DOMAIN clients : clients[id].socket = s

Opened(s) == \E i \in 1..Len(emitted[s]) : emitted[s][i].type = "open"

\* The state of connection s right after its acceptance.
Accepted(s) ==
    [clients |-> (conn[s].clientId :> NewClient(s, conn[s].req.path)),
     sockets |-> [sockets EXCEPT ![s].ended = FALSE, ![s].destroyed = FALSE],
     timers |-> << >>, nextTimer |-> 1,
     emitted |-> <<OpenEvent(conn[s].clientId)>>, threw |-> FALSE,
     result |-> "", next |-> <<>>, frames |-> <<>>, now |-> now]

\* The events of connection s had everything its peer sent arrived in one
\* chunk.
SingleRead(s) ==
    DataListener(Accepted(s), conn[s].clientId, s, conn[s].topic,
                 Flatten(sent[s]), encoding, maxPayload).emitted

\* C1: for a valid stream of masked frames, however the bytes are cut into
\* chunks, once the stream has been read (or the server has destroyed the
\* transport) the events emitted are those of a single read of the stream.
C1_Resegmentation ==
    \A s \in Sockets :
        (/\ conn[s].listening
         /\ sent[s] # <<>>
         /\ WellFormed(sent[s], FALSE)
         /\ (wire[s] = <<>> \/ sockets[s].destroyed))
        => emitted[s] = SingleRead(s)

\* The number of registry records whose transport has the given peer address.
RecordsOf(address) ==
    Cardinality({id \in DOMAIN clients :
                    sockets[clients[id].socket].remoteAddress = address})

\* C2: with limitByIP > 0 the registry never holds more than limitByIP
\* records of one peer address.
C2_PerAddressCap ==
    limitByIP > 0 => \A address \in Addresses : RecordsOf(address) <= limitByIP

\* An upgrade event is being handled for socket s in this step.
UpgradeStep(s) == conn[s].pc = "idle" /\ conn'[s].pc # "idle"

\* The request of this step passed the Upgrade, version and origin tests.
PassedChecks(s) ==
    /\ conn'[s].pc \in {"await", "done"}
    /\ ~(Answered(s, 400) \/ Answered(s, 426) \/ Answered(s, 403))'

\* C3 (step): a request that passed the three tests is answered 429, and
\* its socket destroyed, exactly when limitByIP > 0 and the registry holds
\* limitByIP or more records of the request's peer address.
C3_Step ==
    \A s \in Sockets :
        UpgradeStep(s) /\ PassedChecks(s) =>
            ((Statuses(s)' = <<429>> /\ sockets'[s].destroyed
                    /\ conn'[s].pc = "done")
             <=> (limitByIP > 0
                    /\ RecordsOf(sockets[s].remoteAddress) >= limitByIP))

\* C3 (state): a socket answered 429 has no record, no open event and no
\* 101 response, and limitByIP < 1 answers no 429.
C3_Never ==
    \A s \in Sockets :
        Answered(s, 429) =>
            /\ limitByIP >= 1
            /\ ~Registered(s)
            /\ ~Opened(s)
            /\ ~Answered(s, 101)

C4_RejectedStaysRejected ==
    \A s \in Sockets :
        (Answered(s, 400) \/ Answered(s, 426)) =>
            /\ sockets[s].destroyed
            /\ ~Answered(s, 101)
            /\ ~Registered(s)
            /\ ~Opened(s)

\* The origin policy: the Origin header contains the Host header, or
\* allowOrigin contains '*' or the exact Origin.
OriginAllowed(origin, host) ==
    /\ origin.has
    /\ \/ Includes(origin.val, host)
       \/ \E i \in 1..Len(allowOrigin) :
              allowOrigin[i] = <<Star>> \/ allowOrigin[i] = origin.val

\* C5: a request that passed the Upgrade and version tests passes the
\* origin test if and only if the policy allows its Origin; in every other
\* case, a missing Origin header included, it is answered 403, its socket
\* is destroyed and the handler ends without registering a client.
C5_OriginPolicy ==
    [][\A s \in Sockets :
          (UpgradeStep(s) /\ ~(Answered(s, 400) \/ Answered(s, 426))') =>
              IF OriginAllowed(conn'[s].req.origin, conn'[s].req.host)
              THEN ~Answered(s, 403)' /\ conn'[s].pc \in {"await", "done"}
              ELSE /\ Statuses(s)' = <<403>>
                   /\ sockets'[s].destroyed
                   /\ conn'[s].pc = "done"]_vars

(***************************************************************************)
(* Properties of the frame handler.  They speak of the frames handed to    *)
(* the handler so far: under SpecStream every read carries whole frames.   *)
(***************************************************************************)
\* The frames of connection s that have been read.
Delivered(s) ==
    LET read == TotalLength(sent[s]) - Len(wire[s])
        n == CHOOSE j \in 0..Len(sent[s]) :
                 TotalLength(SubSeq(sent[s], 1, j)) = read
    IN  SubSeq(sent[s], 1, n)

\* Whether a data frame of this size fits the limit next to what is pending.
Fits(pending, bytes, limit) ==
    ~(limit > 0 /\ Len(PayloadOf(bytes)) + Len(pending) > limit)

RECURSIVE Protocol(_, _)
\* Where RFC 6455 and the limit put a connection after a list of frames:
\* idle, assembling a message (its payload so far is pending) or closed,
\* with the number of messages completed.
Protocol(list, limit) ==
    IF list = <<>>
    THEN [phase |-> "idle", pending |-> <<>>, messages |-> 0]
    ELSE LET before == Protocol(SubSeq(list, 1, Len(list) - 1), limit)
             f == list[Len(list)]
             op == OpcodeOf(f)
             closed == [before EXCEPT !.phase = "closed"]
         IN  IF before.phase = "closed" THEN before
             ELSE IF op \in {0, 1, 2} /\ ~Fits(before.pending, f, limit)
             THEN closed
             ELSE IF op \in {1, 2}
             THEN IF before.phase = "assembling" THEN closed
                  ELSE IF FinOf(f)
                  THEN [before EXCEPT !.messages = @ + 1]
                  ELSE [before EXCEPT !.phase = "assembling",
                                      !.pending = PayloadOf(f)]
             ELSE IF op = 0
             THEN IF before.phase = "idle" THEN closed
                  ELSE IF FinOf(f)
                  THEN [phase |-> "idle", pending |-> <<>>,
                        messages |-> before.messages + 1]
                  ELSE [before EXCEPT !.pending = @ \o PayloadOf(f)]
             ELSE IF op \in {9, 10} THEN before
             ELSE closed

\* The message events of connection s.
MessagesOf(s) ==
    Cardinality({i \in 1..Len(emitted[s]) : IsMessage(emitted[s][i])})

ClosedWith(s, code) ==
    \E i \in 1..Len(emitted[s]) :
        emitted[s][i] = CloseEvent(conn[s].clientId, code)

\* C6: when a text or binary frame with FIN = 0 has been received and the
\* next data frame is another text or binary frame, the connection is
\* closed with code 1003 and no message is emitted from those frames.
C6_InterleavedMessage ==
    \A s \in Sockets :
        conn[s].listening =>
            LET D == Delivered(s)
            IN  \A i \in 1..Len(D) :
                    LET before == Protocol(SubSeq(D, 1, i - 1), maxPayload)
                    IN  (/\ before.phase = "assembling"
                         /\ OpcodeOf(D[i]) \in {1, 2}
                         /\ Fits(before.pending, D[i], maxPayload))
                        => /\ ClosedWith(s, 1003)
                           /\ MessagesOf(s) = before.messages

\* C7: a continuation frame received while no fragment is pending closes
\* the connection with code 1003; it is neither emitted nor stored.
C7_StrayContinuation ==
    \A s \in Sockets :
        conn[s].listening =>
            LET D == Delivered(s)
            IN  \A i \in 1..Len(D) :
                    LET before == Protocol(SubSeq(D, 1, i - 1), maxPayload)
                    IN  (/\ before.phase = "idle"
                         /\ OpcodeOf(D[i]) = 0
                         /\ Fits(before.pending, D[i], maxPayload))
                        => /\ ClosedWith(s, 1003)
                           /\ MessagesOf(s) = before.messages
                           /\ conn[s].frames = <<>>

\* D[i..Len(D)] is a fragmented message: a text or binary frame with
\* FIN = 0, continuation frames with FIN = 0, a continuation with FIN = 1.
Fragmented(D, i) ==
    /\ i < Len(D)
    /\ OpcodeOf(D[i]) \in {1, 2} /\ ~FinOf(D[i])
    /\ \A j \in (i + 1)..(Len(D) - 1) : OpcodeOf(D[j]) = 0 /\ ~FinOf(D[j])
    /\ OpcodeOf(D[Len(D)]) = 0 /\ FinOf(D[Len(D)])

RECURSIVE Payloads(_)
\* The payloads of a list of frames, concatenated.
Payloads(list) ==
    IF list = <<>> THEN <<>> ELSE PayloadOf(Head(list)) \o Payloads(Tail(list))

\* Connection s is open: registered, and no close event emitted for it.
Open(s) ==
    /\ conn[s].clientId \in DOMAIN clients
    /\ \A i \in 1..Len(emitted[s]) : emitted[s][i].type # "close"

\* C8: on an open connection, when the frames last received are a text or
\* binary frame with FIN = 0, continuation frames with FIN = 0 and a
\* continuation frame with FIN = 1, the event last emitted is a message
\* whose payload is the concatenation of their payloads in arrival order,
\* and no fragment is pending any more.
C8_Reassembly ==
    \A s \in Sockets :
        (conn[s].listening /\ Open(s)) =>
            LET D == Delivered(s)
            IN  \A i \in 1..Len(D) :
                    Fragmented(D, i) =>
                        LET last == emitted[s][Len(emitted[s])]
                        IN  /\ IsMessage(last)
                            /\ last.data.chars \in
                                 { Payloads(SubSeq(D, i, Len(D))),
                                   HexString(Payloads(SubSeq(D, i, Len(D)))) }
                            /\ conn[s].frames = <<>>

\* C9: a message reassembled on a connection that was idle when its first
\* fragment arrived is emitted as text in the configured encoding when the
\* first fragment was a text frame, as bytes when it was a binary frame.
C9_ReassembledType ==
    \A s \in Sockets :
        (conn[s].listening /\ Open(s)) =>
            LET D == Delivered(s)
            IN  \A i \in 1..Len(D) :
                    (/\ Fragmented(D, i)
                     /\ Protocol(SubSeq(D, 1, i - 1), maxPayload).phase = "idle"
                     /\ Protocol(D, maxPayload).phase = "idle")
                    => LET last == emitted[s][Len(emitted[s])]
                       IN  /\ IsMessage(last)
                           /\ IF OpcodeOf(D[i]) = 1
                              THEN last.data.isString
                                   /\ last.data.encoding = encoding
                              ELSE ~last.data.isString

RECURSIVE Iterations(_, _, _, _, _, _, _)
\* The iterations of the for loop over the decoded frames: the state before
\* each, the frame, the state after.
Iterations(st, clientId, s, topic, data, enc, limit) ==
    IF data = <<>> \/ st.threw THEN <<>>
    ELSE LET after == HandleFrame(st, clientId, s, topic, Head(data), enc, limit)
         IN  <<[before |-> st, decoded |-> Head(data), after |-> after]>>
             \o Iterations(after, clientId, s, topic, Tail(data), enc, limit)

\* The iterations the data listener of connection s makes for a chunk.
ReadIterations(s, chunk) ==
    LET data == ReadFrames(conn[s].next \o chunk)
        last == data[Len(data)]
    IN  IF \/ conn[s].clientId \notin DOMAIN clients
           \/ last.kind = "throw"
           \/ (last.kind = "frame" /\ last.waiting)
        THEN <<>>
        ELSE Iterations(State(s), conn[s].clientId, s, conn[s].topic, data,
                        encoding, maxPayload)

\* The size rule for one handled frame.
SizeRule(it, clientId, topic) ==
    LET d == it.decoded
        pending == SumPayloadLength(it.before.frames)
    IN  (d.kind = "frame" /\ d.opcode \in {0, 1, 2} /\ maxPayload > 0) =>
            IF d.payloadLength + pending > maxPayload
            THEN /\ it.after.emitted =
                        Append(it.before.emitted, CloseEvent(clientId, 1009))
                 /\ clientId \notin DOMAIN it.after.clients
                 /\ it.after.frames = it.before.frames
            ELSE IF d.FIN
            THEN /\ Len(it.after.emitted) = Len(it.before.emitted) + 1
                 /\ LET e == it.after.emitted[Len(it.after.emitted)]
                        alone == d.payloadData
                        whole == ConcatPayloadData(it.before.frames)
                                     \o d.payloadData
                    IN  /\ e.type = topic /\ e.clientId = clientId
                        /\ Len(whole) <= maxPayload
                        /\ IF e.data.isString
                           THEN e.data \in {BufferToString(alone, encoding),
                                            BufferToString(whole, encoding)}
                           ELSE e.data \in {Bytes(alone), Bytes(whole)}
            ELSE /\ it.after.emitted = it.before.emitted
                 /\ it.after.frames = Append(it.before.frames, d)

C18_CodecRoundTrip ==
    probe.stage = "output" =>
        probe.decoded = [kind |-> "frame", FIN |-> TRUE, opcode |-> probe.op,
                         payloadLength |-> Len(probe.p),
                         payloadData |-> probe.p, next |-> <<>>,
                         waiting |-> FALSE]

\* C18 witness: a payload that needs the 64-bit length form made the round
\* trip under a key that changes every byte.
C18_Witness ==
    /\ probe.stage = "output"
    /\ Len(probe.p) = 65536
    /\ probe.key = <<255, 254, 1, 128>>
    /\ probe.decoded.payloadData = probe.p

(***************************************************************************)
(* Properties of the liveness timers.                                      *)
(***************************************************************************)
\* C11: as long as the peer has answered every ping of the server with a
\* pong of the same payload before that ping's pongTimeout elapsed (a ping
\* still within its time counts as not missed), no close event of code 1011
\* is emitted and the client stays registered.
C11_AnsweredPings ==
    (/\ journal.pings # <<>>
     /\ \A i \in 1..Len(journal.pings) :
            \/ journal.pings[i].answered
            \/ journal.pings[i].timeout < 1
            \/ now < journal.pings[i].at + journal.pings[i].timeout)
    => /\ ~ClosedWith(1, 1011)
       /\ conn[1].clientId \in DOMAIN clients

C13_NineAfterFloodStart ==
    (/\ journal.closedAt # -1
     /\ journal.lastPingRead - journal.runStart >= 5000
     /\ journal.closedAt - journal.lastPingRead < 1000)
    => journal.closedAt = journal.runStart + 9000

\* C13 (state): while pings have arrived since the server last wrote a pong
\* (or since the acceptance), the client is not registered beyond 9 s after
\* the first of them; a connection that was closed has a close event of
\* code 1006 and no record.
C13_Within ==
    /\ (journal.burstStart # -1 /\ conn[1].clientId \in DOMAIN clients)
           => now <= journal.burstStart + 9000
    /\ journal.closedAt # -1
           => ClosedWith(1, 1006) /\ conn[1].clientId \notin DOMAIN clients

\* C13 (step): the server writes a pong only 3 s after the last ping, and
\* closes the connection, with a close event of code 1006, exactly 9 s
\* after the first ping that arrived since it last wrote a pong.
C13_Step ==
    /\ Len(journal'.pongsAt) > Len(journal.pongsAt)
           => now = journal.lastPingRead + 3000
    /\ (journal.closedAt = -1 /\ journal'.closedAt # -1)
           => /\ journal.burstStart # -1
              /\ now = journal.burstStart + 9000
              /\ emitted'[1] = Append(emitted[1],
                                      CloseEvent(conn[1].clientId, 1006))
              /\ conn[1].clientId \notin DOMAIN clients'

\* C13 (amended): a client that keeps sending pings less than 3 s apart is
\* disconnected, with a close event of code 1006, 9 s after the first ping
\* the server read since it last wrote a pong or since the acceptance.
C13_AbortTimer == []C13_Within /\ [][C13_Step]_vars

\* C13 witness: a flood of pings half a second apart, begun on a quiet
\* connection, was cut 9 s after its first ping.
C13_Witness ==
    /\ journal.closedAt = journal.runStart + 9000
    /\ journal.runStart < journal.lastPingRead
    /\ journal.closedAt - journal.lastPingRead < 1000
    /\ journal.pingsRead >= 18
    /\ ClosedWith(1, 1006)

\* The pong frames written to socket s.
PongsWritten(s) ==
    Cardinality({i \in 1..Len(sockets[s].written) :
        /\ sockets[s].written[i].data.frame # <<>>
        /\ sockets[s].written[i].data.frame[1] % 16 = 10})

\* C14: any two pong frames the server writes to a client are at least 3 s
\* apart, and it writes no more pongs than it has read pings.
C14_PongRate ==
    /\ \A i \in 2..Len(journal.pongsAt) :
           journal.pongsAt[i] - journal.pongsAt[i - 1] >= 3000
    /\ Len(journal.pongsAt) <= journal.pingsRead
    /\ PongsWritten(1) = Len(journal.pongsAt)

\* C14 witness: two pongs were written for more than two pings.
C14_Witness ==
    /\ Len(journal.pongsAt) = 2
    /\ PongsWritten(1) = 2
    /\ journal.pingsRead > 3

\* C15: once close(id) has returned for a client, no ping deadline timer,
\* pong emit timer or pong abort timer of that client is pending.
C15_NoTimerAfterClose ==
    \A s \in Sockets :
        (conn[s].listening /\ conn[s].clientId \notin DOMAIN clients) =>
            \A h \in DOMAIN timers : timers[h].clientId # conn[s].clientId

(***************************************************************************)
(* Properties of the facade.                                               *)
(***************************************************************************)
\* The step is a call of a facade operation.
Called == returned'.seq # returned.seq

\* The id has a record whose transport is not destroyed.
Found(clientId) ==
    /\ clientId \in DOMAIN clients
    /\ ~sockets[clients[clientId].socket].destroyed

C16_Step ==
    (Called /\ ~Found(returned'.id))
    => /\ returned'.outcome = "throw"
       /\ UNCHANGED <<clients, sockets, timers, emitted>>

\* C16: every facade operation called with an id that is not in the
\* registry, or whose transport is destroyed, throws the not-found error,
\* writes nothing, arms no timer and leaves the registry and the clients
\* unchanged.
C16_NotFound == [][C16_Step]_vars

C17_Step ==
    (Called /\ returned'.op = "close")
    => LET id == returned'.id
       IN  IF id \in DOMAIN clients
           THEN LET s == clients[id].socket
                IN  /\ sockets'[s].destroyed
                    /\ ~sockets[s].destroyed => sockets'[s].ended
                    /\ DOMAIN clients' = DOMAIN clients \ {id}
                    /\ \A other \in DOMAIN clients' :
                           clients'[other] = clients[other]
                    /\ \A t \in Sockets \ {s} : sockets'[t] = sockets[t]
                    /\ returned'.outcome = "true"
           ELSE /\ returned'.outcome = "throw"
                /\ UNCHANGED <<clients, sockets, timers, emitted, conn,
                               uncaught>>

\* C17: close(id) on a registered id leaves the transport destroyed (ended
\* too when it was not destroyed before), removes that record alone and
\* returns true; on an id that is not in the registry it throws not-found
\* and changes nothing, so a second close(id) leaves the registry, the
\* transports and the emitted events as the first left them.
C17_Close == [][C17_Step]_vars

\* C17 witness: close(id) was called again after it had ended and destroyed
\* the transport of connection 1 and removed its record.
C17_Witness ==
    /\ returned.op = "close"
    /\ returned.outcome = "throw"
    /\ conn[1].listening
    /\ returned.id = conn[1].clientId
    /\ returned.id \notin DOMAIN clients
    /\ sockets[1].ended /\ sockets[1].destroyed /\ ~sockets[1].closed

(***************************************************************************)
(* Properties of the client ids.                                           *)
(***************************************************************************)
\* Connection s was accepted and its transport is not destroyed.
Live(s) == conn[s].listening /\ ~sockets[s].destroyed

\* The id names a record whose transport is not destroyed.
Bound(clientId) ==
    /\ clientId \in DOMAIN clients
    /\ ~sockets[clients[clientId].socket].destroyed

\* Connection s is accepted in this step.
Accepting(s) == ~conn[s].listening /\ conn'[s].listening

C19_OneEach ==
    \A s \in Sockets : Live(s) =>
        /\ conn[s].clientId \in DOMAIN clients
        /\ clients[conn[s].clientId].socket = s
        /\ \A t \in Sockets \ {s} :
               Live(t) => conn[t].clientId # conn[s].clientId

C19_Step ==
    \A s \in Sockets : Accepting(s) =>
        /\ ~Bound(conn'[s].clientId)
        /\ \A id \in DOMAIN clients :
               Bound(id) => id \in DOMAIN clients' /\ clients'[id] = clients[id]

\* C19: each client id is bound to at most one live connection: the id given
\* to a newly accepted connection, from the cookie or generated, is never
\* the id of a record whose transport is live, and an acceptance never
\* replaces the record of a live connection.
C19_UniqueIds == []C19_OneEach /\ [][C19_Step]_vars

\* C19 witness: a peer presented the id of a live connection and was
\* accepted under another id; both connections are live.
C19_Witness ==
    /\ Live(1) /\ Live(2)
    /\ conn[2].req.cookie = {conn[1].clientId}
    /\ conn[2].clientId # conn[1].clientId

C20_Step ==
    \A s \in Sockets :
        (Accepting(s) /\ conn'[s].clientId \in conn[s].req.cookie)
        => /\ conn'[s].clientId \in Issued
           /\ ~Bound(conn'[s].clientId)

\* C20: the cookie's value is adopted as the client id of an accepted
\* upgrade only when it is an id the server issued before and that id is not
\* bound to a live connection.
C20_AdoptedIds == [][C20_Step]_vars

C21_Step ==
    \A s \in Sockets :
        (Accepting(s) /\ sessionExpires < 1 /\ conn[s].req.cookie \subseteq Issued)
        => /\ nextUuid' = nextUuid + 1
           /\ conn'[s].clientId = Uuid(nextUuid')

\* C21: with sessionExpires less than 1 every accepted upgrade gets a newly
\* generated id, also when its cookie names an id the server gave out before
\* that is not bound to a live connection.
C21_NoStickyId == [][C21_Step]_vars

(***************************************************************************)
(* Properties of the options.                                              *)
(***************************************************************************)
\* The value is of the option's accepted type or set.
ValidFor(option, arg) ==
    IF option = "allowOrigin" THEN arg.type \in {"null", "string", "list"}
    ELSE IF option = "encoding" THEN arg.type = "string" /\ arg.str \in Encodings
    ELSE arg.type = "number"

C22_Step ==
    probe' # probe =>
        \A option \in Options : probe'.option = option =>
            LET arg == probe'.arg
            IN  IF ~ValidFor(option, arg) THEN Get(option)' = Get(option)
                ELSE IF option = "allowOrigin"
                THEN Get(option)' = (IF arg.type = "string"
                                        /\ Trim(arg.str) # <<>>
                                     THEN <<Trim(arg.str)>> ELSE <<>>)
                ELSE IF option = "encoding" THEN Get(option)' = arg.str
                ELSE Get(option)' = arg.n

\* C22: assigning to an option a value outside its accepted type or set
\* leaves the option's value unchanged, and a valid value is what the getter
\* returns afterwards.
C22_Setters == [][C22_Step]_vars

(***************************************************************************)
(* Properties of the end of a transport.                                   *)
(***************************************************************************)
\* The close events emitted for connection s.
CloseEvents(s) ==
    SelectSeq(emitted[s], LAMBDA e : e.type = "close")

C24_Step ==
    \A s \in Sockets :
        (/\ conn[s].listening
         /\ ~sockets[s].ended
         /\ ~sockets[s].closed /\ sockets'[s].closed)
        => CloseEvents(s)' =
               <<CloseEvent(conn[s].clientId,
                            IF sockets[s].hadError THEN 1006 ELSE 1000)>>

\* C24: when the transport of an accepted client ends without a close by
\* the server (its close callback runs, after its error callback or not),
\* exactly one close event is emitted for it, with code 1000 when it ended
\* cleanly and 1006 when its error flag is set.
C24_OneCloseEvent == [][C24_Step]_vars

\* C25: an id is in the registry if and only if its transport has not been
\* ended or destroyed: every record's transport is neither ended nor
\* destroyed, and every accepted connection whose transport is neither ended
\* nor destroyed has its record.
C25_RegistryIffLive ==
    /\ \A id \in DOMAIN clients :
           /\ ~sockets[clients[id].socket].ended
           /\ ~sockets[clients[id].socket].destroyed
    /\ \A s \in Sockets :
           (conn[s].listening /\ ~sockets[s].ended /\ ~sockets[s].destroyed)
           => conn[s].clientId \in DOMAIN clients /\ clients[conn[s].clientId].socket = s

(***************************************************************************)
(* Properties of the reader.                                               *)
(***************************************************************************)
\* The final frames of the messages in a list of frames: the data and
\* continuation frames with FIN = 1.
FinalFrames(list) ==
    SelectSeq(list, LAMBDA f : OpcodeOf(f) \in {0, 1, 2} /\ FinOf(f))

\* The payload ends with the payload of the frame.
EndsWith(payload, f) ==
    LET tail == PayloadOf(f)
    IN  /\ Len(tail) <= Len(payload)
        /\ SubSeq(payload, Len(payload) - Len(tail) + 1, Len(payload)) = tail

RECURSIVE InWireOrder(_, _)
\* Each payload ends with the payload of a final frame of its own, and
\* these final frames stand in the same order as the payloads.
InWireOrder(payloads, finals) ==
    IF payloads = <<>> THEN TRUE
    ELSE IF finals = <<>> THEN FALSE
    ELSE \/ /\ EndsWith(Head(payloads), Head(finals))
            /\ InWireOrder(Tail(payloads), Tail(finals))
         \/ InWireOrder(payloads, Tail(finals))

\* The payloads of the message events of connection s, in order.
EmittedMessages(s) ==
    LET events == SelectSeq(emitted[s], IsMessage)
    IN  [i \in 1..Len(events) |-> events[i].data.chars]

\* C23: the message events of a connection are emitted in the order in which
\* the final frames of the messages appear on the wire, however the reads
\* cut the bytes and with pings and pongs between the data frames: every
\* message event belongs to a final frame of its own (it ends with that
\* frame's payload) and these final frames are in wire order.
C23_MessageOrder ==
    \A s \in Sockets :
        (conn[s].listening /\ WellFormed(sent[s], FALSE))
        => InWireOrder(EmittedMessages(s), FinalFrames(sent[s]))

\* C23 witness: a message in one frame and a message in two fragments were
\* sent and read; both were emitted, in that order.
C23_Witness ==
    /\ Len(sent[1]) = 3
    /\ OpcodeOf(sent[1][3]) = 0
    /\ wire[1] = <<>>
    /\ EmittedMessages(1) = <<<<65>>, <<66, 68>>>>

\* A 'data' event of connection s happens in this step.
Reading(s) == conn[s].listening /\ Len(wire'[s]) < Len(wire[s])

\* The chunk it carries.
Chunk(s) == SubSeq(wire[s], 1, Len(wire[s]) - Len(wire'[s]))

C26_Step ==
    \A s \in Sockets :
        (Reading(s) /\ conn[s].clientId \in DOMAIN clients) =>
            \A data \in {ReadFrames(conn[s].next \o Chunk(s))} :
                (/\ Len(data) > 1
                 /\ data[Len(data)].kind = "frame"
                 /\ data[Len(data)].waiting)
                => \A st \in {Dispatch(State(s), conn[s].clientId, s,
                                       conn[s].topic,
                                       SubSeq(data, 1, Len(data) - 1),
                                       encoding, maxPayload)} :
                       /\ emitted'[s] = st.emitted
                       /\ conn'[s].frames = st.frames
                       /\ conn'[s].next = data[Len(data)].next

\* C26: when the receive buffer joined with a chunk holds complete frames
\* followed by an incomplete one, the complete frames are handled in order
\* during that read (their events are emitted, their fragments stored) and
\* the receive buffer keeps exactly the bytes of the incomplete frame.
C26_CompleteThenPartial == [][C26_Step]_vars

C27_Step ==
    \A s \in Sockets :
        (/\ Reading(s)
         /\ conn[s].clientId \in DOMAIN clients
         /\ conn[s].clientId \in DOMAIN clients')
        => \A data \in {ReadFrames(conn[s].next \o Chunk(s))} :
               (/\ data[Len(data)].kind = "frame"
                /\ ~data[Len(data)].waiting)
               => conn'[s].next = <<>>

\* C27: after a read whose last decode result is a complete frame, on a
\* connection that stays registered, the receive buffer is empty, whatever
\* the opcodes of the frames handled in that read.
C27_BufferEmptied == [][C27_Step]_vars

C28_Step ==
    \A s \in Sockets :
        (/\ Reading(s)
         /\ conn[s].clientId \in DOMAIN clients
         /\ TotalLength(sent[s]) - Len(wire'[s]) < Len(sent[s][1]))
        => \A buffer \in {conn[s].next \o Chunk(s)} :
               \A decoded \in {Decode(buffer)} :
                   /\ decoded.kind = "frame"
                   /\ decoded.waiting
                   /\ decoded.payloadData = <<>>
                   /\ decoded.next = buffer
                   /\ conn'[s].next = buffer
                   /\ conn[s].clientId \in DOMAIN clients'
                   /\ ~sockets'[s].destroyed
                   /\ emitted'[s] = emitted[s]
                   /\ uncaught'[s] = uncaught[s]

\* C28: while the bytes read so far end before the first frame is complete,
\* the decode of the buffer is waiting, with empty payloadData and the whole
\* buffer as remainder, the buffer is kept and the connection stays open:
\* nothing is emitted, closed or thrown.
C28_WaitingPrefix == [][C28_Step]_vars

\* The positions of the HTTP responses among the writes to socket s.
HttpWrites(s) ==
    {i \in 1..Len(sockets[s].written) : sockets[s].written[i].data.http # 0}

\* C29: an upgrade request gets exactly one HTTP response, of status 101,
\* 400, 403, 426 or 429: never a second status line, never a response
\* written to a socket that is ended or destroyed, and one response once the
\* handler has finished.
C29_OneResponse ==
    \A s \in Sockets :
        /\ Cardinality(HttpWrites(s)) <= 1
        /\ \A i \in HttpWrites(s) :
               /\ sockets[s].written[i].data.http \in {101, 400, 403, 426, 429}
               /\ sockets[s].written[i].live
        /\ conn[s].pc \in {"done", "threw"} => HttpWrites(s) # {}

\* The number of payload bytes of a message event.
MessageBytes(event) ==
    IF event.data.isString /\ event.data.encoding = "hex"
    THEN Len(event.data.chars) \div 2
    ELSE Len(event.data.chars)

C30_Pending ==
    \A s \in Sockets :
        (maxPayload > 0 /\ conn[s].clientId \in DOMAIN clients)
        => SumPayloadLength(conn[s].frames) <= maxPayload

C30_Step ==
    \A s \in Sockets :
        maxPayload > 0 =>
            \A i \in (Len(emitted[s]) + 1)..Len(emitted'[s]) :
                IsMessage(emitted'[s][i]) =>
                    MessageBytes(emitted'[s][i]) <= maxPayload

\* C30: with maxPayload > 0, between callbacks the payload lengths of the
\* fragments pending on a registered connection sum to at most the current
\* maxPayload, also after the setter lowered it, and no message event
\* carries more than maxPayload bytes.
C30_PendingWithinLimit == []C30_Pending /\ [][C30_Step]_vars

(***************************************************************************)
(* Properties of the refusals of the frame handler.                        *)
(***************************************************************************)
\* An iteration of the for loop that found the client registered and ended
\* with the close event of this code and the client removed, and armed no
\* timer.
Refused(it, clientId, code) ==
    /\ it.after.emitted = Append(it.before.emitted, CloseEvent(clientId, code))
    /\ clientId \notin DOMAIN it.after.clients
    /\ it.after.timers = it.before.timers
    /\ ~it.after.threw

C31_Step ==
    \A s \in Sockets :
        Reading(s) =>
            \A its \in {ReadIterations(s, Chunk(s))} :
                /\ \A i \in 1..Len(its) :
                       (/\ its[i].decoded.kind = "frame"
                        /\ its[i].decoded.opcode \in {9, 10}
                        /\ its[i].decoded.payloadLength > 125
                        /\ conn[s].clientId \in DOMAIN its[i].before.clients)
                       => Refused(its[i], conn[s].clientId, 1003)
                /\ its # <<>> =>
                       /\ emitted'[s] = its[Len(its)].after.emitted
                       /\ clients' = its[Len(its)].after.clients
                       /\ timers' = its[Len(its)].after.timers

\* C31: a ping or pong frame with a payload longer than 125 bytes, handled
\* for a registered client, ends in a close event of code 1003 and the
\* removal of the client, whatever maxPayload is and whatever fragments are
\* pending, and arms no timer.
C31_OversizedControl == [][C31_Step]_vars

\* Whether the peer's frame is one #decode or the opcode dispatch refuses:
\* unmasked, a 64-bit length with a non-zero high word, a reserved opcode.
Invalid(bytes) ==
    \/ bytes[2] < 128
    \/ bytes[2] % 128 = 127 /\ \E i \in 3..6 : bytes[i] # 0
    \/ bytes[1] % 16 \in (3..7) \cup (11..15)

\* The whole frames a read of connection s carries.
ChunkFrames(s) == SubSeq(sent[s], Len(Delivered(s)) + 1, Len(Delivered(s)'))

\* Whether seq starts with pre.
StartsWith(seq, pre) ==
    Len(pre) <= Len(seq) /\ SubSeq(seq, 1, Len(pre)) = pre

C32_Step ==
    \A s \in Sockets :
        (Reading(s) /\ conn[s].clientId \in DOMAIN clients /\ conn[s].next = <<>>)
        => \A list \in {ChunkFrames(s)} :
               \A k \in 1..Len(list) :
                   (Invalid(list[k]) /\ \A j \in 1..(k - 1) : ~Invalid(list[j]))
                   => \A st \in {Dispatch(State(s), conn[s].clientId, s,
                                     conn[s].topic,
                                     [j \in 1..(k - 1) |-> Decode(list[j])],
                                     encoding, maxPayload)} :
                          conn[s].clientId \in DOMAIN st.clients
                          => /\ StartsWith(emitted'[s],
                                    Append(st.emitted,
                                           CloseEvent(conn[s].clientId, 1003)))
                             /\ conn[s].clientId \notin DOMAIN clients'

\* C32: when a chunk of whole frames holds a frame that is unmasked, or has
\* a 64-bit length with a non-zero high word, or has an opcode in 3..7 or
\* 11..15, the frames in front of it are handled as they would be alone,
\* and, if they leave the client registered, the frame leads to a close
\* event of code 1003 and the removal of the client.
C32_InvalidFrame == [][C32_Step]_vars

C33_Step ==
    \A s \in Sockets :
        Reading(s) =>
            \A its \in {ReadIterations(s, Chunk(s))} :
                /\ \A i \in 1..Len(its) :
                       conn[s].clientId \notin DOMAIN its[i].before.clients
                       => /\ its[i].after.emitted = its[i].before.emitted
                          /\ its[i].after.timers = its[i].before.timers
                          /\ its[i].after.sockets = its[i].before.sockets
                /\ its # <<>> =>
                       /\ emitted'[s] = its[Len(its)].after.emitted
                       /\ timers' = its[Len(its)].after.timers
                       /\ sockets' = its[Len(its)].after.sockets
                /\ conn[s].clientId \notin DOMAIN clients
                   => /\ emitted'[s] = emitted[s]
                      /\ timers' = timers
                      /\ sockets' = sockets

\* C33: once a frame has closed the connection and removed its client, no
\* further frame of the connection is acted on, in the same chunk or in a
\* later one: nothing is emitted, no timer is armed, nothing is written.
C33_NothingAfterClose == [][C33_Step]_vars

\* C34: over the whole life of an accepted connection at most one close
\* event is emitted for it.
C34_AtMostOneClose == \A s \in Sockets : Len(CloseEvents(s)) <= 1

C35_Step ==
    \A handle \in DOMAIN timers :
        (/\ handle \notin DOMAIN timers'
         /\ timers[handle].clientId \notin DOMAIN clients)
        => UNCHANGED <<clients, sockets, emitted, uncaught>>

\* C35: a ping deadline timer, pong emit timer or pong abort timer that
\* fires after the record of its client has been removed does nothing: no
\* event, no write, no exception, no change of the registry.
C35_LateTimers == [][C35_Step]_vars

\* The 'close' or the 'error' callback of transport s runs in this step.
TransportCallback(s) ==
    /\ conn[s].listening
    /\ \/ sockets'[s].closed # sockets[s].closed
       \/ sockets'[s].hadError # sockets[s].hadError

C36_Step ==
    \A s \in Sockets :
        (TransportCallback(s) /\ conn[s].clientId \notin DOMAIN clients)
        => UNCHANGED <<clients, emitted, uncaught>>

\* C36: a transport close or error callback that runs after the client's
\* record has been removed emits no event, raises no error and leaves the
\* registry unchanged.
C36_LateTransportCallback == [][C36_Step]_vars

C37_Step ==
    \A s \in Sockets :
        \A id \in {conn[s].clientId} :
            (/\ TransportCallback(s)
             /\ id \in DOMAIN clients
             /\ clients[id].socket # s)
            => /\ id \in DOMAIN clients'
               /\ clients'[id] = clients[id]
               /\ sockets'[clients[id].socket] = sockets[clients[id].socket]
               /\ emitted'[s] = emitted[s]

\* C37: when a later connection took over the id of an earlier one, the
\* close and error callbacks of the earlier transport do not destroy the
\* later transport, do not remove or alter its record and emit no event
\* under its id.
C37_ReusedId == [][C37_Step]_vars

(***************************************************************************)
(* Properties of the periodic ping task.                                   *)
(***************************************************************************)
\* The ping frames written to socket s.
PingsWritten(s) ==
    Cardinality({i \in 1..Len(sockets[s].written) :
        sockets[s].written[i].data.frame = Encode(conn[s].clientId, 9)})

C38_Step ==
    (returned'.seq # returned.seq /\ pingDelay > 0) =>
        \A id \in DOMAIN clients :
            \A s \in {clients[id].socket} :
                ~sockets[s].destroyed =>
                    /\ Len(sockets'[s].written) = Len(sockets[s].written) + 1
                    /\ PingsWritten(s)' = PingsWritten(s) + 1

\* C38: with pingDelay > 0, a firing of the periodic task writes one ping
\* frame to the transport of every registered client whose transport is
\* live, whatever the other records of the registry are.
C38_PingsEveryLiveClient == [][C38_Step]_vars

\* C39: after the construction and any assignments to pingDelay at most one
\* periodic task is scheduled, its period is the current pingDelay, and
\* none is scheduled while pingDelay is less than 1.
C39_OnePeriodicTask ==
    /\ Cardinality(DOMAIN intervals) <= 1
    /\ \A handle \in DOMAIN intervals :
           handle = pingTimer /\ intervals[handle] = pingDelay
    /\ pingDelay < 1 => intervals = << >>

(***************************************************************************)
(* Properties of the answer to a peer's ping.                              *)
(***************************************************************************)
\* The pong abort timers that are pending.
AbortTimers == {h \in DOMAIN timers : timers[h].kind = "timerSecurity"}

C40_Answered ==
    \A id \in {conn[1].clientId} :
        (/\ journal.lastPingRead # -1
         /\ id \in DOMAIN clients
         /\ now > journal.lastPingRead + 3000)
        => /\ Cardinality({i \in 1..Len(journal.pongsAt) :
                  journal.pongsAt[i] > journal.lastPingRead}) = 1
           /\ journal.pongsAt[Len(journal.pongsAt)] = journal.lastPingRead + 3000
           /\ sockets[1].written[Len(sockets[1].written)].data
                  = FrameWrite(Encode(PingPayload(journal.lastPingRead), 10))
           /\ clients[id].pong.timerSecurity = NoTimer
           /\ AbortTimers = {}

C40_Step ==
    \A id \in {conn[1].clientId} :
        (/\ journal'.pingsRead > journal.pingsRead
         /\ id \in DOMAIN clients
         /\ clients[id].pong.timerSecurity = NoTimer)
        => /\ id \in DOMAIN clients'
           /\ AbortTimers' = {clients'[id].pong.timerSecurity}
           /\ \A h \in AbortTimers' : timers'[h].due = now + 9000

\* C40: when a ping has been read and no other ping is read in the 3 s that
\* follow, on a connection that stays open, the server writes exactly one
\* pong, 3 s after that ping and with its payload, and the pong abort timer
\* is disarmed; a ping read while it is disarmed arms it anew, due 9 s
\* later.
C40_PongAfterQuiet == []C40_Answered /\ [][C40_Step]_vars

\* C40 witness: two isolated pings were each answered by a pong 3 s later,
\* with different payloads, and the abort timer is disarmed again.
C40_Witness ==
    /\ conn[1].clientId \in DOMAIN clients
    /\ journal.pingsRead = 2
    /\ Len(journal.pongsAt) = 2
    /\ journal.pongsAt[2] = journal.lastPingRead + 3000
    /\ PingPayload(journal.pongsAt[1] - 3000) # PingPayload(journal.lastPingRead)
    /\ now > journal.pongsAt[2]
    /\ AbortTimers = {}

=============================================================================
